---------------------------- MODULE Spec2Model ----------------------------
(***************************************************************************)
(* A model of the virtualpad server.                                       *)
(*                                                                         *)
(*   - the slot manager of virtualpad/pads/__init__.py (PadSlot, PadSlots) *)
(*     with the password settings of virtualpad/pads/settings.py, driven   *)
(*     by one caller at a time (specification Spec);                       *)
(*   - the pad server of virtualpad/pad_server.py over the device pool of  *)
(*     virtualpad/pads.py, one thread per connection plus one heartbeat    *)
(*     thread per logged-in connection, interleaved at the granularity of  *)
(*     the reads and writes of shared data (specification PadSpec);        *)
(*   - the connection index of virtualpad/base_server.py, taken by every   *)
(*     handler thread in its setup (specification IndexSpec);              *)
(*   - the broadcast server of virtualpad/broadcast_server.py: observer    *)
(*     threads, the threads that broadcast and the one that closes the     *)
(*     server (specifications BroadcastSpec, BroadcastFairSpec and         *)
(*     BroadcastStallSpec);                                                *)
(*   - the admin commands of virtualpad/main_server.py over the slot       *)
(*     manager (specification AdminSpec);                                  *)
(*   - the settings file of virtualpad/pads/settings.py read and written   *)
(*     by several threads (specification StoreSpec);                       *)
(*   - the event frames turned into calls of the uinput device by          *)
(*     devices.emit and by _pad_send_all_mode1 (specification DeviceSpec); *)
(*   - the slot manager with a caller that keeps calling heartbeat()       *)
(*     (specification SweepSpec).                                          *)
(***************************************************************************)
EXTENDS Integers, Sequences, FiniteSets, TLC

(***************************************************************************)
(* Bounds of the model.                                                    *)
(***************************************************************************)
\* Number of slots: len(SLOTS_INDICES).  The program uses 8.
NumSlots == 2
\* Pad connections served in one run.
NumConns == 2
\* Handler threads that take a connection index in one run.
NumHandlers == 3
\* Virtual devices the pad server can create in one run.
MaxDevices == 2
\* Observer connections of the broadcast server in one run.
NumObservers == 2
\* Threads that call broadcast() in one run.
NumProducers == 2
\* Calls of broadcast() in one run.
MaxMessages == 2

(***************************************************************************)
(* Values.                                                                 *)
(***************************************************************************)
\* self._device = None
NoDevice == 0
\* self._last_user_stamp = None
NoStamp == -1
\* self._connection_index = -1, and the default of expect
NoConnection == -1

\* SLOTS_INDICES of pads/constants.py: the indices of the slots.
SLOTS_INDICES == 0 .. (NumSlots - 1)
\* The positions of the list self._slots, which has one PadSlot per index.
SlotRange == 0 .. (NumSlots - 1)
\* SLOTS_HEARTBEAT_TIME of pads/constants.py: the cooldown, in seconds.
SLOTS_HEARTBEAT_TIME == 5
\* The times at which heartbeat() is called, counted from the stamp 0.
HeartbeatTimes == 0 .. (SLOTS_HEARTBEAT_TIME + 1)
Passwords == {"aaaa", "bbbb"}
PasswordVectors == [SLOTS_INDICES -> Passwords]
\* The settings file at start: slot 0 has its own password.
StoredPasswords == [i \in SLOTS_INDICES |-> IF i = 0 THEN "aaaa" ELSE "bbbb"]
\* The callers of the slot manager: each connection has its own index
\* (IndexedHandler.index) and sends its own nickname.
Callers == {[nickname |-> "alice", index |-> 0],
            [nickname |-> "bob", index |-> 1]}
ConnIds == {c.index : c \in Callers}
Expects == {NoConnection} \cup ConnIds
\* pad_index values a caller passes: N is out of the list's range, -1 is a
\* negative index, which a Python list accepts.
PadIndices == (-1) .. NumSlots
\* The event lists a caller passes to emit: (key, state) pairs.
EventLists == {<<>>, <<<<0, 1>>>>}

VARIABLES
    slots,      \* PadSlots._slots: one PadSlot record per index
    settings,   \* the settings file: [exists, passwords]
    ndev,       \* pads.py: devices created so far (the next is ndev + 1)
    now,        \* datetime.datetime.now()
    last,       \* the last call made to the slot manager and how it ended
    POOL,       \* pads.py POOL: one (device, nickname) entry per index
    counter,    \* _INDICES_MAPPING[PadHandler][server]
    ix,         \* per handler thread: its place in IndexedHandler.setup
    h,          \* per pad connection: its handler and heartbeat threads
    bcast,      \* the notifications the pad server has broadcast
    state_set,  \* BroadcastServer._state is not None
    in_states,  \* the broadcast server is a key of _STATES
    listening,  \* the listening socket of the broadcast server is open
    lock,       \* the thread that holds _STATES[server].lock
    queues,     \* the keys of _STATES[server].queues
    oqueue,     \* per observer: the content of its queue.Queue
    ob,         \* per observer: its handler thread
    th,         \* per thread that runs _send_all: where it stands
    ncalls,     \* calls of broadcast() so far
    blog,       \* the messages broadcast, in the order _send_all took the lock
    first,      \* per observer: Len(blog) when it was put into queues
    pad_server, \* MainServerState.pad_server is not None
    pad_bound,  \* a PadServer socket is bound to PAD_PORT
    adm,        \* the last admin request and what its handler did
    file,       \* the settings file as concurrent threads read and write it
    rg,         \* per index: the thread that runs passwords_regenerate(index)
    ck,         \* the last passwords_check a thread made, and how it ended
    fn,         \* the function that sent the frame to the device, if any did
    frame,      \* the events of the frame received so far
    wire        \* the calls the uinput device got for the frame, in order

manager == <<slots, now, last>>
server == <<POOL, h, bcast>>
indexed == <<counter, ix>>
bserver == <<state_set, in_states, listening, lock, queues, oqueue, ob, th,
             ncalls, blog, first>>
admin == <<pad_server, pad_bound, adm>>
store == <<file, rg, ck>>
uinput == <<fn, frame, wire>>
vars == <<slots, settings, ndev, now, last, POOL, counter, ix, h, bcast,
          state_set, in_states, listening, lock, queues, oqueue, ob, th,
          ncalls, blog, first, pad_server, pad_bound, adm, file, rg, ck,
          fn, frame, wire>>

(***************************************************************************)
(* PadSlot                                                                 *)
(***************************************************************************)
PadSlot_init ==
    [status |-> "EMPTY", device |-> NoDevice, nickname |-> "",
     connection_index |-> NoConnection, last_user_stamp |-> NoStamp]

\* The outcome of a call on one slot: the exception raised ("none" when the
\* call returns), the slot afterwards, and the calls made on the virtual
\* device layer in order.
Outcome(exc, slot, fx) == [exc |-> exc, slot |-> slot, fx |-> fx]

\* A variant of InUse: occupy without the check of line 73.
InUse_Never(slot) == FALSE

\* occupy: the check of line 73
InUse(slot) == slot.status = "OCCUPIED"

\* occupy: lines 76-78
Occupied(slot, nickname, connection_index) ==
    [slot EXCEPT !.status = "OCCUPIED",
                 !.nickname = nickname,
                 !.connection_index = connection_index]

\* occupy(nickname, connection_index).  make(name) gives the device fresh,
\* or raises (uinput.Device raising) when devok is FALSE.
PadSlot_occupy(slot, nickname, connection_index, devok, fresh) ==
    IF InUse(slot)
    THEN Outcome("PadInUse", slot, <<>>)
    ELSE LET s1 == Occupied(slot, nickname, connection_index)
         IN  IF slot.device = NoDevice
             THEN IF devok
                  THEN Outcome("none", [s1 EXCEPT !.device = fresh],
                               <<<<"make", fresh>>>>)
                  ELSE Outcome("DeviceError", s1, <<>>)
             ELSE Outcome("none", s1, <<>>)

\* emit_zero(device) runs emit(device, ...), which swallows every exception:
\* with device = None the attribute lookup fails inside its try block.
emit_zero(device) ==
    IF device = NoDevice THEN <<>> ELSE <<<<"emit_zero", device>>>>

\* A variant of ForceReleased: line 100 left out.
ForceReleased_KeepsNickname(slot) ==
    [slot EXCEPT !.status = "EMPTY",
                 !.connection_index = NoConnection,
                 !.last_user_stamp = NoStamp,
                 !.device = NoDevice]

\* release, force: lines 99-102 and 105
ForceReleased(slot) ==
    [slot EXCEPT !.status = "EMPTY",
                 !.nickname = "",
                 !.connection_index = NoConnection,
                 !.last_user_stamp = NoStamp,
                 !.device = NoDevice]

\* A variant of ForceEffects: line 105 moved before line 103, so that the
\* device is gone when the neutral frame is due.
ForceEffects_DropFirst(slot, zero) ==
    IF slot.device # NoDevice THEN <<<<"drop", slot.device>>>> ELSE <<>>

\* release, force: the calls on the device, lines 103-105
ForceEffects(slot, zero) ==
    (IF zero /\ slot.device # NoDevice
     THEN emit_zero(slot.device) ELSE <<>>)
    \o (IF slot.device # NoDevice
        THEN <<<<"drop", slot.device>>>> ELSE <<>>)

\* release, not force: lines 111-114
Released(slot, t) ==
    [slot EXCEPT !.status = "RECENTLY_USED",
                 !.nickname = "",
                 !.connection_index = NoConnection,
                 !.last_user_stamp = t]

\* A variant of ExpectMatches: release without the test of line 110.
ExpectMatches_Always(slot, expect) == TRUE

\* release, not force: the test of line 110
ExpectMatches(slot, expect) ==
    expect \in {NoConnection, slot.connection_index}

\* A variant of PadSlot.release: a release that is not forced returns
\* silently on a slot that is not OCCUPIED.
PadSlot_release_Silent(slot, force, expect, zero, t) ==
    IF force
    THEN IF slot.status = "EMPTY"
         THEN Outcome("PadNotInUse", slot, <<>>)
         ELSE Outcome("none", ForceReleased(slot), ForceEffects(slot, zero))
    ELSE IF slot.status = "OCCUPIED" /\ ExpectMatches(slot, expect)
         THEN Outcome("none", Released(slot, t),
                      IF zero THEN emit_zero(slot.device) ELSE <<>>)
         ELSE Outcome("none", slot, <<>>)

PadSlot_release(slot, force, expect, zero, t) ==
    IF force
    THEN IF slot.status = "EMPTY"
         THEN Outcome("PadNotInUse", slot, <<>>)
         ELSE Outcome("none", ForceReleased(slot), ForceEffects(slot, zero))
    ELSE IF slot.status # "OCCUPIED"
         THEN Outcome("PadNotInUse", slot, <<>>)
         ELSE IF ExpectMatches(slot, expect)
              THEN Outcome("none", Released(slot, t),
                           IF zero THEN emit_zero(slot.device) ELSE <<>>)
              ELSE Outcome("none", slot, <<>>)

\* emit(events) calls devices.emit(device, events) with one argument: the
\* call raises TypeError before the body of devices.emit runs.
PadSlot_emit(slot, events) ==
    IF slot.status # "OCCUPIED"
    THEN Outcome("PadNotInUse", slot, <<>>)
    ELSE Outcome("TypeError", slot, <<>>)

\* heartbeat(): datetime.now() - self._status subtracts an IntEnum from a
\* datetime, which raises TypeError; `and` evaluates it only for a
\* RECENTLY_USED slot, so lines 140-143 are never reached.
PadSlot_heartbeat(slot, t) ==
    IF slot.status = "RECENTLY_USED"
    THEN [exc |-> "TypeError", slot |-> slot, fx |-> <<>>, ret |-> FALSE]
    ELSE [exc |-> "none", slot |-> slot, fx |-> <<>>, ret |-> FALSE]

\* A variant of PadSlot.serialize: a RECENTLY_USED slot reported as empty.
PadSlot_serialize_NoRecentlyUsed(slot) ==
    IF slot.status = "OCCUPIED" THEN <<"occupied", slot.nickname>>
    ELSE <<"empty", "">>

\* PadSlot.serialize: (status tag, nickname).
PadSlot_serialize(slot) ==
    IF slot.status = "OCCUPIED" THEN <<"occupied", slot.nickname>>
    ELSE IF slot.status = "RECENTLY_USED" THEN <<"recently-used", "">>
    ELSE <<"empty", "">>

(***************************************************************************)
(* settings                                                                *)
(***************************************************************************)
\* load(): a missing file is created with generated passwords (gen).
load(st, gen) ==
    IF st.exists THEN st ELSE [exists |-> TRUE, passwords |-> gen]

\* A variant of passwords_check: the comparison of the password left out.
passwords_check_IndexOnly(st, index, password, gen) ==
    IF index \in SLOTS_INDICES
    THEN [ok |-> TRUE, settings |-> load(st, gen)]
    ELSE [ok |-> FALSE, settings |-> st]

\* passwords_check(index, password): [ok, settings afterwards]
passwords_check(st, index, password, gen) ==
    IF index \in SLOTS_INDICES
    THEN [ok |-> load(st, gen).passwords[index] = password,
          settings |-> load(st, gen)]
    ELSE [ok |-> FALSE, settings |-> st]

(***************************************************************************)
(* PadSlots                                                                *)
(***************************************************************************)
\* self._slots[pad_index] on a Python list of NumSlots items.
InListRange(pad_index) == pad_index >= -NumSlots /\ pad_index < NumSlots
ListIndex(pad_index) ==
    IF pad_index < 0 THEN pad_index + NumSlots ELSE pad_index

\* The device make(self._name) builds for a slot: the name of line 33 tells
\* the devices of the slot manager apart, one name per slot.
SlotDevice(pad_index) == ListIndex(pad_index) + 1
SlotDevices == {SlotDevice(i) : i \in SlotRange}

\* The outcome of a call on the slot manager.
Result(exc, ss, st, fx) ==
    [exc |-> exc, slots |-> ss, settings |-> st, fx |-> fx]

OnSlot(ss, st, pad_index, o) ==
    Result(o.exc, [ss EXCEPT ![ListIndex(pad_index)] = o.slot], st, o.fx)

PadSlots_occupy(ss, st, pad_index, nickname, password, connection_index, devok, fresh, gen) ==
    IF ~InListRange(pad_index)
    THEN Result("PadIndexOutOfRange", ss, st, <<>>)
    ELSE LET chk == passwords_check(st, pad_index, password, gen)
         IN  IF ~chk.ok
             THEN Result("AuthenticationFailed", ss, chk.settings, <<>>)
             ELSE OnSlot(ss, chk.settings, pad_index,
                         PadSlot_occupy(ss[ListIndex(pad_index)], nickname,
                                        connection_index, devok, fresh))

PadSlots_release(ss, st, pad_index, force, expect, zero, t) ==
    IF ~InListRange(pad_index)
    THEN Result("PadIndexOutOfRange", ss, st, <<>>)
    ELSE OnSlot(ss, st, pad_index,
                PadSlot_release(ss[ListIndex(pad_index)], force, expect,
                                zero, t))

PadSlots_emit(ss, st, pad_index, events, expect) ==
    IF ~InListRange(pad_index)
    THEN Result("PadIndexOutOfRange", ss, st, <<>>)
    ELSE IF expect \notin {NoConnection,
                           ss[ListIndex(pad_index)].connection_index}
         THEN Result("PadMismatch", ss, st, <<>>)
         ELSE OnSlot(ss, st, pad_index,
                     PadSlot_emit(ss[ListIndex(pad_index)], events))

\* release_all(): release(index, force=True, zero=True) for each index in
\* order; the first exception ends the loop.
RECURSIVE ReleaseFrom(_, _, _, _)
ReleaseFrom(ss, st, index, t) ==
    IF index \notin SLOTS_INDICES
    THEN Result("none", ss, st, <<>>)
    ELSE LET r == PadSlots_release(ss, st, index, TRUE, NoConnection, TRUE, t)
         IN  IF r.exc # "none"
             THEN r
             ELSE LET rest == ReleaseFrom(r.slots, st, index + 1, t)
                  IN  Result(rest.exc, rest.slots, st, r.fx \o rest.fx)

PadSlots_release_all(ss, st, t) == ReleaseFrom(ss, st, 0, t)

\* heartbeat(): [pad.heartbeat() for pad in self._slots].  ret is the list
\* built so far; an exception leaves the comprehension without a list.
RECURSIVE HeartbeatFrom(_, _, _, _, _)
HeartbeatFrom(ss, st, index, t, ret) ==
    IF index \notin SlotRange
    THEN [exc |-> "none", slots |-> ss, settings |-> st, fx |-> <<>>,
          ret |-> ret]
    ELSE LET o == PadSlot_heartbeat(ss[index], t)
         IN  IF o.exc # "none"
             THEN [exc |-> o.exc, slots |-> [ss EXCEPT ![index] = o.slot],
                   settings |-> st, fx |-> o.fx, ret |-> <<>>]
             ELSE HeartbeatFrom([ss EXCEPT ![index] = o.slot], st,
                                index + 1, t, Append(ret, o.ret))

PadSlots_heartbeat(ss, st, t) == HeartbeatFrom(ss, st, 0, t, <<>>)

PadSlots_serialize(ss) == [i \in SlotRange |-> PadSlot_serialize(ss[i])]

(***************************************************************************)
(* main_server.py: the admin commands on the slot manager.                 *)
(***************************************************************************)
\* MainHandler.handle, pad:clear-all: the response sent after release_all.
\* An exception skips _send and is logged by the bare except of line 103.
clear_all_response(r) ==
    IF r.exc = "none" THEN "pad:ok" ELSE "no response"

\* A variant of passwords_regenerate: the new passwords are not saved.
passwords_regenerate_NotSaved(st, indices, gen) == load(st, gen)

\* passwords_regenerate(*args): new passwords (gen) for the given indices,
\* for all when none is given; indices out of SLOTS_INDICES are passed over.
passwords_regenerate(st, indices, gen) ==
    LET args == IF indices = {} THEN 0 .. 7 ELSE indices
    IN  [exists |-> TRUE,
         passwords |-> [i \in SLOTS_INDICES |->
                          IF i \in args THEN gen[i]
                          ELSE load(st, gen).passwords[i]]]

\* The commands of an admin request; "other" is any other command name.
Commands ==
    {"server:start", "server:stop", "server:is-running", "pad:clear",
     "pad:clear-all", "pad:status", "pad:reset-passwords", "other"}

\* The requests: index and force are read by pad:clear only, indices by
\* pad:reset-passwords only.
Requests ==
    [command : {"pad:clear"}, index : PadIndices, force : BOOLEAN,
     indices : {{}}]
    \cup [command : {"pad:reset-passwords"}, index : {0}, force : {FALSE},
          indices : {{}, {0}}]
    \cup [command : Commands \ {"pad:clear", "pad:reset-passwords"},
          index : {0}, force : {FALSE}, indices : {{}}]

\* The passwords _regenerate_password may give while a request is handled:
\* only pad:reset-passwords makes new ones, the settings file being there.
NewPasswords(req, st) ==
    IF req.command = "pad:reset-passwords" \/ ~st.exists
    THEN PasswordVectors ELSE {st.passwords}

\* launch_pad_server binds a new PadServer to PAD_PORT: the bind raises
\* OSError while the socket of an earlier PadServer is bound to the port.
launch_pad_server_raises(bound) == bound

\* What a handler wrote to its client (_send) and handed to the broadcast
\* (_broadcast), in order.  value is the "value" of server:is-running.
Sent(code, value) == <<"send", code, value>>
Broadcasted(code) == <<"broadcast", code, FALSE>>

\* The outcome of handle(): what went out, and the state afterwards.
Handled(out, ss, st, running, bound) ==
    [out |-> out, slots |-> ss, settings |-> st, pad_server |-> running,
     pad_bound |-> bound]

\* MainHandler.handle for one well-formed request.  An exception of the
\* command is caught by the bare except of line 103, which only logs:
\* what had been changed before it stays changed, nothing more is sent.
MainHandler_handle(req, ss, st, running, bound, t, gen) ==
    CASE req.command = "server:start" ->
           IF ~running
           THEN IF launch_pad_server_raises(bound)
                THEN Handled(<<>>, ss, st, running, bound)
                ELSE Handled(<<Sent("server:ok", FALSE)>>, ss, st, TRUE, TRUE)
           ELSE Handled(<<Sent("server:already-running", FALSE)>>, ss, st,
                        running, bound)
      [] req.command = "server:stop" ->
           IF running
           THEN Handled(<<Sent("server:ok", FALSE)>>, ss, st, FALSE, bound)
           ELSE Handled(<<Sent("server:not-running", FALSE)>>, ss, st,
                        running, bound)
      [] req.command = "server:is-running" ->
           Handled(<<Sent("server:is-running", running)>>, ss, st, running,
                   bound)
      [] req.command = "pad:clear" ->
           IF req.index \in SlotRange
           THEN LET r == PadSlots_release(ss, st, req.index, req.force,
                                          NoConnection, TRUE, t)
                IN  IF r.exc = "none"
                    THEN Handled(<<Sent("pad:ok", FALSE),
                                   Broadcasted("pad:cleared")>>,
                                 r.slots, st, running, bound)
                    ELSE Handled(<<>>, r.slots, st, running, bound)
           ELSE Handled(<<Sent("pad:invalid-index", FALSE)>>, ss, st, running,
                        bound)
      [] req.command = "pad:clear-all" ->
           LET r == PadSlots_release_all(ss, st, t)
           IN  IF r.exc = "none"
               THEN Handled(<<Sent("pad:ok", FALSE),
                              Broadcasted("pad:all-cleared")>>,
                            r.slots, st, running, bound)
               ELSE Handled(<<>>, r.slots, st, running, bound)
      [] req.command = "pad:status" ->
           Handled(<<Sent("pad:status", FALSE)>>, ss, load(st, gen), running,
                   bound)
      [] req.command = "pad:reset-passwords" ->
           Handled(<<Sent("ok", FALSE)>>, ss,
                   passwords_regenerate(st, req.indices, gen), running, bound)
      [] OTHER ->
           Handled(<<Sent("unknown-command", FALSE)>>, ss, st, running, bound)

(***************************************************************************)
(* pads.py: the device pool the pad server works on.                       *)
(***************************************************************************)
\* MAX_PAD_COUNT is 8 in the program; the model has NumSlots entries.
MAX_PAD_COUNT == NumSlots
\* The positions of POOL = [(None, None)] * MAX_PAD_COUNT
PoolRange == 0 .. (MAX_PAD_COUNT - 1)
\* PAD_MODES
PAD_MODES == 2
\* N_BUTTONS, CLOSE_CONNECTION and PING of pad_server.py
N_BUTTONS == 18
CLOSE_CONNECTION == N_BUTTONS + 1
PING == N_BUTTONS + 2

Conns == 1 .. NumConns
Handlers == 1 .. NumHandlers
\* The nickname a connection sends in its handshake.
Nick(c) == IF c = 1 THEN "alice" ELSE IF c = 2 THEN "bob" ELSE "carol"
\* The mode bytes a client sends: 0 is a mode, 2 is not.
Modes == {0, 2}
\* The pad index bytes a client sends: MAX_PAD_COUNT is out of range.
WireIndices == 0 .. MAX_PAD_COUNT
\* The length bytes a client sends after its handshake: an event frame of
\* one pair, N_BUTTONS itself, CLOSE_CONNECTION, PING, and one more.
Lengths == {1, N_BUTTONS, CLOSE_CONNECTION, PING, PING + 1}

NoEntry == [device |-> NoDevice, nickname |-> ""]

\* pad_check_password(index, password)
pad_check_password(st, index, password) == password = st.passwords[index]

\* pad_clear(index, expect) after current = POOL[index]: whether it raises
\* PadNotInUse, and whether it stores (None, None).
pad_clear_raises(current) == current.device = NoDevice
pad_clear_stores(current, expect) ==
    expect = NoDevice \/ current.device = expect

\* The slots that POOL stands for: an entry with a device is a pad in use
\* under its nickname, (None, None) is a free pad.
PoolSlots ==
    [i \in PoolRange |->
        IF POOL[i].device = NoDevice
        THEN PadSlot_init
        ELSE [PadSlot_init EXCEPT !.status = "OCCUPIED",
                                  !.nickname = POOL[i].nickname,
                                  !.device = POOL[i].device]]

(***************************************************************************)
(* base_server.py: _next_index, called by IndexedHandler.setup.            *)
(***************************************************************************)
Indexed_init ==
    [pc |-> "new",
     value |-> 0, tmp |-> 0,            \* locals of _next_index
     index |-> NoConnection]            \* self._index

\* The server accepts connection c (after the connections before it) and
\* starts its thread.
Accept(c) ==
    /\ ix[c].pc = "new"
    /\ \A d \in Handlers : d < c => ix[d].pc # "new"
    /\ ix' = [ix EXCEPT ![c].pc = "idx_get"]
    /\ UNCHANGED <<bserver, store, uinput, admin, manager, server, settings, ndev, counter>>

\* value = _INDICES_MAPPING.setdefault(cls, {}).setdefault(server, 0)
NextIndexGet(c) ==
    /\ ix[c].pc = "idx_get"
    /\ ix' = [ix EXCEPT ![c].pc = "idx_load", ![c].value = counter]
    /\ UNCHANGED <<bserver, store, uinput, admin, manager, server, settings, ndev, counter>>

\* _INDICES_MAPPING[cls][server] += 1: the load
NextIndexLoad(c) ==
    /\ ix[c].pc = "idx_load"
    /\ ix' = [ix EXCEPT ![c].pc = "idx_store", ![c].tmp = counter]
    /\ UNCHANGED <<bserver, store, uinput, admin, manager, server, settings, ndev, counter>>

\* _INDICES_MAPPING[cls][server] += 1: the store; return value
NextIndexStore(c) ==
    /\ ix[c].pc = "idx_store"
    /\ counter' = ix[c].tmp + 1
    /\ ix' = [ix EXCEPT ![c].pc = "done", ![c].index = ix[c].value,
                        ![c].value = 0, ![c].tmp = 0]
    /\ UNCHANGED <<bserver, store, uinput, admin, manager, server, settings, ndev>>

(***************************************************************************)
(* pad_server.py: one handler thread per connection (pc), started by the   *)
(* server on accept, and the heartbeat thread it starts (hb).  A step is   *)
(* one access to data shared between threads: POOL, the index counter,     *)
(* self._device and self._has_ping, the broadcast.                         *)
(***************************************************************************)
NoHandshake == [index |-> 0, mode |-> 0, password |-> ""]

Handler_init ==
    [pc |-> "auth_read", hb |-> "off",
     hs |-> NoHandshake,                \* the handshake read, until answered
     pad_index |-> -1,                  \* self._pad_index (None: -1)
     mode |-> 0,                        \* self._mode
     device |-> NoDevice,               \* self._device
     ldevice |-> NoDevice,              \* the local device of handle()
     has_ping |-> FALSE,                \* self._has_ping
     reply |-> ""]                      \* the handshake response written

Upd(c, r) == h' = [h EXCEPT ![c] = r]

\* A variant of Reply: after a refusal the handler goes on to read commands.
Reply_KeepsReading(c, code, wok) ==
    IF wok
    THEN [h[c] EXCEPT !.pc = "read", !.reply = code, !.hs = NoHandshake]
    ELSE [h[c] EXCEPT !.pc = "dead", !.hs = NoHandshake]

\* A handshake response is written; the write raises when wok is FALSE.
\* A failed login leaves self._pad_index None: setup() sets self._device
\* to None and handle() finds nothing to do.
Reply(c, code, wok) ==
    IF wok
    THEN [h[c] EXCEPT !.pc = "loop", !.reply = code, !.hs = NoHandshake]
    ELSE [h[c] EXCEPT !.pc = "dead", !.hs = NoHandshake]

\* _pad_auth: read(22), the mode check and the index check.
AuthRead(c) ==
    /\ h[c].pc = "auth_read"
    /\ \E complete \in BOOLEAN, i \in WireIndices, m \in Modes,
          pw \in Passwords, wok \in BOOLEAN :
         Upd(c, IF ~complete
                THEN [h[c] EXCEPT !.pc = "dead"]
                ELSE IF m \notin 0 .. (PAD_MODES - 1)
                THEN Reply(c, "PAD_MODE_INVALID", wok)
                ELSE IF i >= MAX_PAD_COUNT
                THEN Reply(c, "PAD_INVALID", wok)
                ELSE [h[c] EXCEPT !.pc = "auth_get",
                                  !.hs = [index |-> i, mode |-> m,
                                          password |-> pw]])
    /\ UNCHANGED <<bserver, store, uinput, admin, manager, indexed, settings, ndev, POOL, bcast>>

\* _pad_auth: entry = pad_get(index), the password check and the response;
\* then _auth stores the pad index, the nickname and the mode.
AuthGet(c) ==
    /\ h[c].pc = "auth_get"
    /\ \E wok \in BOOLEAN :
         Upd(c, IF POOL[h[c].hs.index].device # NoDevice
                THEN Reply(c, "PAD_BUSY", wok)
                ELSE IF ~pad_check_password(settings, h[c].hs.index,
                                            h[c].hs.password)
                THEN Reply(c, "LOGIN_FAILURE", wok)
                ELSE IF ~wok
                THEN [h[c] EXCEPT !.pc = "dead", !.hs = NoHandshake]
                ELSE [h[c] EXCEPT !.pc = "set_check",
                                  !.reply = "LOGIN_SUCCESS",
                                  !.pad_index = h[c].hs.index,
                                  !.mode = h[c].hs.mode,
                                  !.hs = NoHandshake])
    /\ UNCHANGED <<bserver, store, uinput, admin, manager, indexed, settings, ndev, POOL, bcast>>

\* pad_set: current = POOL[index][0]; PadInUse leaves setup().
PadSetCheck(c) ==
    /\ h[c].pc = "set_check"
    /\ Upd(c, IF POOL[h[c].pad_index].device # NoDevice
              THEN [h[c] EXCEPT !.pc = "dead"]
              ELSE [h[c] EXCEPT !.pc = "set_store"])
    /\ UNCHANGED <<bserver, store, uinput, admin, manager, indexed, settings, ndev, POOL, bcast>>

\* pad_set: POOL[index] = make_pad(...), nickname
PadSetStore(c) ==
    /\ h[c].pc = "set_store"
    /\ \E devok \in BOOLEAN :
         IF devok
         THEN /\ ndev < MaxDevices
              /\ ndev' = ndev + 1
              /\ POOL' = [POOL EXCEPT ![h[c].pad_index] =
                             [device |-> ndev + 1, nickname |-> Nick(c)]]
              /\ Upd(c, [h[c] EXCEPT !.pc = "init_get"])
         ELSE /\ Upd(c, [h[c] EXCEPT !.pc = "dead"])
              /\ UNCHANGED <<ndev, POOL>>
    /\ UNCHANGED <<bserver, store, uinput, admin, manager, indexed, settings, bcast>>

\* _init_pad: the pad:set notification, self._device = pad_get(index)[0],
\* and the heartbeat thread is started.
InitPad(c) ==
    /\ h[c].pc = "init_get"
    /\ bcast' = bcast \cup {<<"pad:set", h[c].pad_index, Nick(c)>>}
    /\ Upd(c, [h[c] EXCEPT !.pc = "loop", !.hb = "hb_check",
                           !.device = POOL[h[c].pad_index].device,
                           !.ldevice = POOL[h[c].pad_index].device])
    /\ UNCHANGED <<bserver, store, uinput, admin, manager, indexed, settings, ndev, POOL>>

\* handle(): while self._device
Loop(c) ==
    /\ h[c].pc = "loop"
    /\ Upd(c, IF h[c].device # NoDevice
              THEN [h[c] EXCEPT !.pc = "read"]
              ELSE [h[c] EXCEPT !.pc = "finally"])
    /\ UNCHANGED <<bserver, store, uinput, admin, manager, indexed, settings, ndev, POOL, bcast>>

\* handle(): rfile.read(1) returns nothing, or raises ConnectionResetError
ReadEof(c) ==
    /\ h[c].pc = "read"
    /\ Upd(c, [h[c] EXCEPT !.pc = "finally"])
    /\ UNCHANGED <<bserver, store, uinput, admin, manager, indexed, settings, ndev, POOL, bcast>>

\* handle(): one length byte and what follows it.  full is whether the
\* 2 * length bytes of an event frame arrive; wok whether a write succeeds
\* (a failed write raises, and the finally block runs).
ReadCommand(c) ==
    /\ h[c].pc = "read"
    /\ \E length \in Lengths, full \in BOOLEAN, wok \in BOOLEAN :
         LET r == h[c]
         IN  Upd(c,
               IF length < N_BUTTONS
               THEN IF full
                    THEN [r EXCEPT !.pc = "ev_check"]
                    ELSE [r EXCEPT !.pc = "finally"]
               ELSE IF length = CLOSE_CONNECTION
               THEN [r EXCEPT !.pc = "close_read"]
               ELSE IF length = PING
               THEN IF wok
                    THEN [r EXCEPT !.pc = "loop", !.has_ping = TRUE]
                    ELSE [r EXCEPT !.pc = "finally", !.has_ping = TRUE]
               ELSE [r EXCEPT !.pc = "loop"])
    /\ UNCHANGED <<bserver, store, uinput, admin, manager, indexed, settings, ndev, POOL, bcast>>

\* _process_events: if not self._device: return
EventsCheck(c) ==
    /\ h[c].pc = "ev_check"
    /\ Upd(c, IF h[c].device = NoDevice
              THEN [h[c] EXCEPT !.pc = "loop"]
              ELSE [h[c] EXCEPT !.pc = "ev_send"])
    /\ UNCHANGED <<bserver, store, uinput, admin, manager, indexed, settings, ndev, POOL, bcast>>

\* pad_send_all(index, events, mode, expect=self._device): PadMismatch is
\* caught by the bare except of _process_events.
EventsSend(c) ==
    /\ h[c].pc = "ev_send"
    /\ Upd(c, IF h[c].device # NoDevice
                 /\ POOL[h[c].pad_index].device # h[c].device
              THEN [h[c] EXCEPT !.pc = "loop"]
              ELSE [h[c] EXCEPT !.pc = "ev_emit"])
    /\ UNCHANGED <<bserver, store, uinput, admin, manager, indexed, settings, ndev, POOL, bcast>>

\* _pad_send_all(POOL[index][0], events, mode): the frame goes to the device
\* the pool holds now; with None there, the exception is swallowed.
EventsEmit(c) ==
    /\ h[c].pc = "ev_emit"
    /\ Upd(c, [h[c] EXCEPT !.pc = "loop"])
    /\ UNCHANGED <<bserver, store, uinput, admin, manager, indexed, settings, ndev, POOL, bcast>>

\* CLOSE_CONNECTION: pad_clear(self._pad_index), no expect.  PadNotInUse
\* is re-raised by `except Exception`, after the finally block.
CloseRead(c) ==
    /\ h[c].pc = "close_read"
    /\ Upd(c, IF pad_clear_raises(POOL[h[c].pad_index])
              THEN [h[c] EXCEPT !.pc = "finally"]
              ELSE IF pad_clear_stores(POOL[h[c].pad_index], NoDevice)
              THEN [h[c] EXCEPT !.pc = "close_store"]
              ELSE [h[c] EXCEPT !.pc = "finally", !.ldevice = NoDevice])
    /\ UNCHANGED <<bserver, store, uinput, admin, manager, indexed, settings, ndev, POOL, bcast>>

\* pad_clear: POOL[index] = (None, None); then device = None; return
CloseStore(c) ==
    /\ h[c].pc = "close_store"
    /\ POOL' = [POOL EXCEPT ![h[c].pad_index] = NoEntry]
    /\ Upd(c, [h[c] EXCEPT !.pc = "finally", !.ldevice = NoDevice])
    /\ UNCHANGED <<bserver, store, uinput, admin, manager, indexed, settings, ndev, bcast>>

\* finally: if self._device
Finally(c) ==
    /\ h[c].pc = "finally"
    /\ Upd(c, IF h[c].device # NoDevice /\ h[c].pad_index # -1
              THEN [h[c] EXCEPT !.pc = "fin_read"]
              ELSE [h[c] EXCEPT !.pc = "fin_none"])
    /\ UNCHANGED <<bserver, store, uinput, admin, manager, indexed, settings, ndev, POOL, bcast>>

\* finally: pad_clear(self._pad_index, device); PadNotInUse is passed over
FinallyRead(c) ==
    /\ h[c].pc = "fin_read"
    /\ Upd(c, IF ~pad_clear_raises(POOL[h[c].pad_index])
                 /\ pad_clear_stores(POOL[h[c].pad_index], h[c].ldevice)
              THEN [h[c] EXCEPT !.pc = "fin_store"]
              ELSE [h[c] EXCEPT !.pc = "fin_none"])
    /\ UNCHANGED <<bserver, store, uinput, admin, manager, indexed, settings, ndev, POOL, bcast>>

FinallyStore(c) ==
    /\ h[c].pc = "fin_store"
    /\ POOL' = [POOL EXCEPT ![h[c].pad_index] = NoEntry]
    /\ Upd(c, [h[c] EXCEPT !.pc = "fin_none"])
    /\ UNCHANGED <<bserver, store, uinput, admin, manager, indexed, settings, ndev, bcast>>

\* finally: self._device = None
FinallyNone(c) ==
    /\ h[c].pc = "fin_none"
    /\ Upd(c, [h[c] EXCEPT !.pc = "done", !.device = NoDevice])
    /\ UNCHANGED <<bserver, store, uinput, admin, manager, indexed, settings, ndev, POOL, bcast>>

\* _heartbeat: while self._device and self._device == pad_get(index)[0]
HeartbeatCheck(c) ==
    /\ h[c].hb = "hb_check"
    /\ Upd(c, IF h[c].device # NoDevice
                 /\ h[c].device = POOL[h[c].pad_index].device
              THEN [h[c] EXCEPT !.hb = "hb_sleep"]
              ELSE [h[c] EXCEPT !.hb = "hb_done"])
    /\ UNCHANGED <<bserver, store, uinput, admin, manager, indexed, settings, ndev, POOL, bcast>>

\* _heartbeat: the sleep is over.  A ping seen is consumed; otherwise the
\* pad:timeout notification is broadcast.
HeartbeatSleep(c) ==
    /\ h[c].hb = "hb_sleep"
    /\ IF h[c].has_ping
       THEN /\ Upd(c, [h[c] EXCEPT !.hb = "hb_check", !.has_ping = FALSE])
            /\ UNCHANGED bcast
       ELSE /\ Upd(c, [h[c] EXCEPT !.hb = "hb_write"])
            /\ bcast' = bcast \cup {<<"pad:timeout", h[c].pad_index, "">>}
    /\ UNCHANGED <<bserver, store, uinput, admin, manager, indexed, settings, ndev, POOL>>

\* _heartbeat: self.wfile.write(TIMEOUT); a failed write raises out of the
\* thread (only PadNotInUse is caught).
HeartbeatWrite(c) ==
    /\ h[c].hb = "hb_write"
    /\ \E wok \in BOOLEAN :
         Upd(c, IF wok
                THEN [h[c] EXCEPT !.hb = "hb_clear"]
                ELSE [h[c] EXCEPT !.hb = "hb_dead"])
    /\ UNCHANGED <<bserver, store, uinput, admin, manager, indexed, settings, ndev, POOL, bcast>>

\* _heartbeat: pad_clear(self._pad_index, self._device)
HeartbeatClear(c) ==
    /\ h[c].hb = "hb_clear"
    /\ Upd(c, IF ~pad_clear_raises(POOL[h[c].pad_index])
                 /\ pad_clear_stores(POOL[h[c].pad_index], h[c].device)
              THEN [h[c] EXCEPT !.hb = "hb_store"]
              ELSE [h[c] EXCEPT !.hb = "hb_none"])
    /\ UNCHANGED <<bserver, store, uinput, admin, manager, indexed, settings, ndev, POOL, bcast>>

HeartbeatStore(c) ==
    /\ h[c].hb = "hb_store"
    /\ POOL' = [POOL EXCEPT ![h[c].pad_index] = NoEntry]
    /\ Upd(c, [h[c] EXCEPT !.hb = "hb_none"])
    /\ UNCHANGED <<bserver, store, uinput, admin, manager, indexed, settings, ndev, bcast>>

\* _heartbeat: self._device = None; break
HeartbeatNone(c) ==
    /\ h[c].hb = "hb_none"
    /\ Upd(c, [h[c] EXCEPT !.hb = "hb_done", !.device = NoDevice])
    /\ UNCHANGED <<bserver, store, uinput, admin, manager, indexed, settings, ndev, POOL, bcast>>

(***************************************************************************)
(* broadcast_server.py.  Every observer connection has a handler thread    *)
(* (setup, handle, finish); broadcast() and server_close() run _send_all   *)
(* in the thread of their caller.  The lock is taken and given back in     *)
(* steps of their own, so that a thread can be seen waiting for it.        *)
(***************************************************************************)
Observers == 1 .. NumObservers
Producers == (NumObservers + 1) .. (NumObservers + NumProducers)
\* The thread that calls server_close().
Closer == 0
\* The lock is free.
NoThread == -1
\* _FINISH, the sentinel; the messages are numbered from 1 by their call.
FINISH == 0
Messages == 1 .. MaxMessages

Observer_init ==
    [pc |-> "new", message |-> FINISH, written |-> <<>>, connected |-> TRUE]

Sender_init == [pc |-> "idle", what |-> FINISH, todo |-> {}]

\* A variant of queue.Queue(): a queue of size 1, whose put() waits while
\* the queue is full.
PutBlocks_WhenFull(q) == Len(q) >= 1

\* queue.Queue() has no maximal size: put() never waits.
PutBlocks(q) == FALSE

\* A variant of Queue.put(): the item takes the place of those waiting.
QueuePut_KeepsOne(q, what) == <<what>>

\* Queue.put(what): the item is added at the end.
QueuePut(q, what) == Append(q, what)

\* A variant of Queue.get(): the newest item is taken.
QueueGet_Newest(q) ==
    [message |-> q[Len(q)], rest |-> SubSeq(q, 1, Len(q) - 1)]

\* Queue.get(): the oldest item is taken.
QueueGet(q) == [message |-> Head(q), rest |-> Tail(q)]

\* Where _send_all returns to: broadcast() is over, server_close() goes on.
Returned(t) == IF t = Closer THEN "super_close" ELSE "idle"

UpdOb(o, r) == ob' = [ob EXCEPT ![o] = r]
UpdTh(t, r) == th' = [th EXCEPT ![t] = r]

\* A thread calls broadcast(message).
Broadcast(t) ==
    /\ th[t].pc = "idle"
    /\ ncalls < MaxMessages
    /\ ncalls' = ncalls + 1
    /\ UpdTh(t, [th[t] EXCEPT !.pc = "check", !.what = ncalls + 1])
    /\ UNCHANGED <<state_set, in_states, listening, lock, queues, oqueue, ob,
                   blog, first>>
    /\ UNCHANGED <<store, uinput, admin, manager, server, indexed, settings, ndev>>

\* server_close() is called: _send_all(_FINISH).
ServerClose ==
    /\ th[Closer].pc = "idle"
    /\ UpdTh(Closer, [th[Closer] EXCEPT !.pc = "check", !.what = FINISH])
    /\ UNCHANGED <<state_set, in_states, listening, lock, queues, oqueue, ob,
                   ncalls, blog, first>>
    /\ UNCHANGED <<store, uinput, admin, manager, server, indexed, settings, ndev>>

\* _send_all: if not self._state: return
SendAllCheck(t) ==
    /\ th[t].pc = "check"
    /\ UpdTh(t, IF state_set
                THEN [th[t] EXCEPT !.pc = "acquire"]
                ELSE [th[t] EXCEPT !.pc = Returned(t), !.what = FINISH])
    /\ UNCHANGED <<state_set, in_states, listening, lock, queues, oqueue, ob,
                   ncalls, blog, first>>
    /\ UNCHANGED <<store, uinput, admin, manager, server, indexed, settings, ndev>>

\* _send_all: with self._state.lock, and the items of the queues.  With
\* self._state None by now, the attribute access raises.
SendAllAcquire(t) ==
    /\ th[t].pc = "acquire"
    /\ IF state_set
       THEN /\ lock = NoThread
            /\ lock' = t
            /\ blog' = IF th[t].what = FINISH THEN blog
                       ELSE Append(blog, th[t].what)
            /\ UpdTh(t, [th[t] EXCEPT !.pc = "put", !.todo = queues])
       ELSE /\ UpdTh(t, [th[t] EXCEPT !.pc = "idle", !.what = FINISH])
            /\ UNCHANGED <<lock, blog>>
    /\ UNCHANGED <<state_set, in_states, listening, queues, oqueue, ob,
                   ncalls, first>>
    /\ UNCHANGED <<store, uinput, admin, manager, server, indexed, settings, ndev>>

\* _send_all: q.put(what), for one queue of the loop
SendAllPut(t) ==
    /\ th[t].pc = "put"
    /\ \E o \in th[t].todo :
         /\ ~PutBlocks(oqueue[o])
         /\ oqueue' = [oqueue EXCEPT ![o] = QueuePut(@, th[t].what)]
         /\ UpdTh(t, [th[t] EXCEPT !.todo = @ \ {o}])
    /\ UNCHANGED <<state_set, in_states, listening, lock, queues, ob,
                   ncalls, blog, first>>
    /\ UNCHANGED <<store, uinput, admin, manager, server, indexed, settings, ndev>>

\* _send_all: the loop is over, the lock is given back
SendAllRelease(t) ==
    /\ th[t].pc = "put"
    /\ th[t].todo = {}
    /\ lock' = NoThread
    /\ UpdTh(t, [th[t] EXCEPT !.pc = Returned(t), !.what = FINISH])
    /\ UNCHANGED <<state_set, in_states, listening, queues, oqueue, ob,
                   ncalls, blog, first>>
    /\ UNCHANGED <<store, uinput, admin, manager, server, indexed, settings, ndev>>

\* server_close: super().server_close() closes the listening socket
CloseSocket ==
    /\ th[Closer].pc = "super_close"
    /\ listening' = FALSE
    /\ UpdTh(Closer, [th[Closer] EXCEPT !.pc = "clear_state"])
    /\ UNCHANGED <<state_set, in_states, lock, queues, oqueue, ob,
                   ncalls, blog, first>>
    /\ UNCHANGED <<store, uinput, admin, manager, server, indexed, settings, ndev>>

\* server_close: self._state = None
ClearState ==
    /\ th[Closer].pc = "clear_state"
    /\ state_set' = FALSE
    /\ UpdTh(Closer, [th[Closer] EXCEPT !.pc = "pop"])
    /\ UNCHANGED <<in_states, listening, lock, queues, oqueue, ob,
                   ncalls, blog, first>>
    /\ UNCHANGED <<store, uinput, admin, manager, server, indexed, settings, ndev>>

\* server_close: _STATES.pop(self, None)
PopState ==
    /\ th[Closer].pc = "pop"
    /\ in_states' = FALSE
    /\ UpdTh(Closer, [th[Closer] EXCEPT !.pc = "closed"])
    /\ UNCHANGED <<state_set, listening, lock, queues, oqueue, ob,
                   ncalls, blog, first>>
    /\ UNCHANGED <<store, uinput, admin, manager, server, indexed, settings, ndev>>

\* The server accepts a connection and starts its handler thread.
AcceptObserver(o) ==
    /\ ob[o].pc = "new"
    /\ listening
    /\ UpdOb(o, [ob[o] EXCEPT !.pc = "setup"])
    /\ UNCHANGED <<state_set, in_states, listening, lock, queues, oqueue, th,
                   ncalls, blog, first>>
    /\ UNCHANGED <<store, uinput, admin, manager, server, indexed, settings, ndev>>

\* setup: with _STATES[self.server].lock; KeyError without the key
SetupAcquire(o) ==
    /\ ob[o].pc = "setup"
    /\ IF in_states
       THEN /\ lock = NoThread
            /\ lock' = o
            /\ UpdOb(o, [ob[o] EXCEPT !.pc = "setup_reg"])
       ELSE /\ UpdOb(o, [ob[o] EXCEPT !.pc = "dead"])
            /\ UNCHANGED lock
    /\ UNCHANGED <<state_set, in_states, listening, queues, oqueue, th,
                   ncalls, blog, first>>
    /\ UNCHANGED <<store, uinput, admin, manager, server, indexed, settings, ndev>>

\* setup: self._queue = queue.Queue(); _STATES[self.server].queues[self] =
\* self._queue; the lock is given back, also when the lookup raises.
SetupRegister(o) ==
    /\ ob[o].pc = "setup_reg"
    /\ lock' = NoThread
    /\ IF in_states
       THEN /\ queues' = queues \cup {o}
            /\ oqueue' = [oqueue EXCEPT ![o] = <<>>]
            /\ first' = [first EXCEPT ![o] = Len(blog)]
            /\ UpdOb(o, [ob[o] EXCEPT !.pc = "get"])
       ELSE /\ UpdOb(o, [ob[o] EXCEPT !.pc = "dead"])
            /\ UNCHANGED <<queues, oqueue, first>>
    /\ UNCHANGED <<state_set, in_states, listening, th, ncalls, blog>>
    /\ UNCHANGED <<store, uinput, admin, manager, server, indexed, settings, ndev>>

\* handle: message = self._queue.get(), which waits for an item
Get(o) ==
    /\ ob[o].pc = "get"
    /\ oqueue[o] # <<>>
    /\ \E g \in {QueueGet(oqueue[o])} :
         /\ oqueue' = [oqueue EXCEPT ![o] = g.rest]
         /\ UpdOb(o, [ob[o] EXCEPT
                        !.pc = IF g.message = FINISH THEN "finish" ELSE "write",
                        !.message = g.message])
    /\ UNCHANGED <<state_set, in_states, listening, lock, queues, th,
                   ncalls, blog, first>>
    /\ UNCHANGED <<store, uinput, admin, manager, server, indexed, settings, ndev>>

\* handle: self.wfile.write(message); it raises when the client is gone
Write(o) ==
    /\ ob[o].pc = "write"
    /\ UpdOb(o, IF ob[o].connected
                THEN [ob[o] EXCEPT !.pc = "get", !.message = FINISH,
                                   !.written = Append(@, ob[o].message)]
                ELSE [ob[o] EXCEPT !.pc = "finish", !.message = FINISH])
    /\ UNCHANGED <<state_set, in_states, listening, lock, queues, oqueue, th,
                   ncalls, blog, first>>
    /\ UNCHANGED <<store, uinput, admin, manager, server, indexed, settings, ndev>>

\* The client of an observer connection closes it.  Only the write sees
\* it: a client that closes earlier is seen as one that closes when the
\* handler has reached its loop.
Disconnect(o) ==
    /\ ob[o].pc \in {"get", "write"}
    /\ ob[o].connected
    /\ UpdOb(o, [ob[o] EXCEPT !.connected = FALSE])
    /\ UNCHANGED <<state_set, in_states, listening, lock, queues, oqueue, th,
                   ncalls, blog, first>>
    /\ UNCHANGED <<store, uinput, admin, manager, server, indexed, settings, ndev>>

\* finish: with _STATES[self.server].lock; KeyError without the key
FinishAcquire(o) ==
    /\ ob[o].pc = "finish"
    /\ IF in_states
       THEN /\ lock = NoThread
            /\ lock' = o
            /\ UpdOb(o, [ob[o] EXCEPT !.pc = "finish_pop"])
       ELSE /\ UpdOb(o, [ob[o] EXCEPT !.pc = "done"])
            /\ UNCHANGED lock
    /\ UNCHANGED <<state_set, in_states, listening, queues, oqueue, th,
                   ncalls, blog, first>>
    /\ UNCHANGED <<store, uinput, admin, manager, server, indexed, settings, ndev>>

\* finish: self._queue = None; _STATES[self.server].queues.pop(self, None);
\* the lock is given back, also when the lookup raises.
FinishPop(o) ==
    /\ ob[o].pc = "finish_pop"
    /\ lock' = NoThread
    /\ queues' = IF in_states THEN queues \ {o} ELSE queues
    /\ UpdOb(o, [ob[o] EXCEPT !.pc = "done"])
    /\ UNCHANGED <<state_set, in_states, listening, oqueue, th,
                   ncalls, blog, first>>
    /\ UNCHANGED <<store, uinput, admin, manager, server, indexed, settings, ndev>>

\* No admin request has been handled yet.
NoRequest == [command |-> "none", out |-> <<>>]

(***************************************************************************)
(* pads/devices.py emit and pads.py _pad_send_all_mode1: an event frame    *)
(* turned into calls of the uinput device.                                 *)
(***************************************************************************)
\* The most events a frame has.
MaxFrame == 2
BTN_UP == 10
BTN_DOWN == 11
BTN_LEFT == 12
BTN_RIGHT == 13
ABS_X == 14
ABS_Y == 15
\* The (key, state) pairs over the keys 0 .. 17: some states of a button,
\* of a D-pad direction and of an axis.
Events ==
    {<<key, state>> : key \in 0 .. 9, state \in {0, 1}}
        \cup {<<key, state>> : key \in 10 .. 13, state \in {0, 1, 2}}
        \cup {<<key, state>> : key \in 14 .. 17, state \in {-1, 0, 200, 300}}

\* abs_x_changes and abs_y_changes: None, or a set of axis values.
None == {}
Some(changes) == {changes}
\* (changes or set())
OrEmpty(changes) == IF changes = None THEN {} ELSE CHOOSE c \in changes : TRUE
\* int(min(255, max(0, value)))
Clamp(value) == IF value > 255 THEN 255 ELSE IF value < 0 THEN 0 ELSE value
\* device.emit(code, value, syn=syn); the code of an axis is written as the
\* key of its event, 14 .. 17.
DeviceCall(kind, code, value, syn) == <<kind, code, value, syn>>
\* device.syn()
Syn == <<"syn", 0, 0, TRUE>>

\* The lists indexed by the state of a D-pad direction, and the syn of the
\* emit call of an explicit axis, in devices.emit: _emit passes syn=False.
devices_emit_lists ==
    [up |-> <<127, 0>>, down |-> <<127, 255>>, left |-> <<127, 0>>,
     right |-> <<127, 255>>, axis_syn |-> FALSE]
\* The same in _pad_send_all_mode1: LEFT has [127, 255] and RIGHT [127, 0],
\* and the axis call names no syn, which uinput's Device.emit takes as True.
pad_send_all_mode1_lists ==
    [up |-> <<127, 0>>, down |-> <<127, 255>>, left |-> <<127, 255>>,
     right |-> <<127, 0>>, axis_syn |-> TRUE]

\* The locals before the loop over the events.
Emit_init ==
    [out |-> <<>>, abs_x_forced |-> FALSE, abs_y_forced |-> FALSE,
     abs_x_changes |-> None, abs_y_changes |-> None, exc |-> "none"]

\* The list a D-pad event indexes with its state.
DpadList(event, lists) ==
    CASE event = BTN_UP -> lists.up
      [] event = BTN_DOWN -> lists.down
      [] event = BTN_LEFT -> lists.left
      [] OTHER -> lists.right

\* The body of `for event, value in events`; a list indexed past its end
\* raises IndexError.
EventStep(st, event, value, lists) ==
    IF event < 10
    THEN [st EXCEPT !.out = @ \o
              <<DeviceCall("scan", 4, 589825 + event, FALSE),
                DeviceCall("key", 288 + event, IF value # 0 THEN 1 ELSE 0,
                           FALSE)>>]
    ELSE IF event < 14
    THEN IF value \notin 0 .. 1
         THEN [st EXCEPT !.exc = "IndexError"]
         ELSE IF event \in {BTN_UP, BTN_DOWN}
              THEN [st EXCEPT !.abs_y_changes =
                        Some(OrEmpty(@)
                                 \cup {DpadList(event, lists)[value + 1]})]
              ELSE [st EXCEPT !.abs_x_changes =
                        Some(OrEmpty(@)
                                 \cup {DpadList(event, lists)[value + 1]})]
    ELSE IF event - 14 \notin 0 .. 3
    THEN [st EXCEPT !.exc = "IndexError"]
    ELSE [st EXCEPT !.abs_x_forced = @ \/ event = ABS_X,
                    !.abs_y_forced = @ \/ event = ABS_Y,
                    !.out = @ \o <<DeviceCall("abs", event, Clamp(value),
                                              lists.axis_syn)>>]

RECURSIVE EventLoop(_, _, _, _)
EventLoop(st, events, k, lists) ==
    IF k > Len(events) \/ st.exc # "none"
    THEN st
    ELSE EventLoop(EventStep(st, events[k][1], events[k][2], lists), events,
                   k + 1, lists)

\* changes -= {127}; changes.pop() if len(changes) == 1 else 127
Folded(changes) ==
    IF Cardinality(changes \ {127}) = 1
    THEN CHOOSE value \in changes \ {127} : TRUE
    ELSE 127

\* The calls the device gets for the events: the loop, the folded D-pad
\* axes and device.syn(). An exception ends the function at once; it is
\* printed and swallowed, and the calls made before it stay made.
SendAll(events, lists) ==
    LET st == EventLoop(Emit_init, events, 1, lists)
        x == IF ~st.abs_x_forced /\ st.abs_x_changes # None
             THEN <<DeviceCall("abs", ABS_X,
                               Folded(OrEmpty(st.abs_x_changes)), FALSE)>>
             ELSE <<>>
        y == IF ~st.abs_y_forced /\ st.abs_y_changes # None
             THEN <<DeviceCall("abs", ABS_Y,
                               Folded(OrEmpty(st.abs_y_changes)), FALSE)>>
             ELSE <<>>
    IN  IF st.exc # "none" THEN st.out ELSE st.out \o x \o y \o <<Syn>>

\* devices.emit(device, events)
devices_emit(events) == SendAll(events, devices_emit_lists)
\* _pad_send_all(device, events, 1)
pad_send_all_mode1(events) == SendAll(events, pad_send_all_mode1_lists)

\* An event is added to the frame that will be sent.
Receive(event) ==
    /\ fn = "none"
    /\ Len(frame) < MaxFrame
    /\ frame' = Append(frame, event)
    /\ UNCHANGED <<fn, wire>>
    /\ UNCHANGED <<bserver, store, admin, manager, server, indexed, settings, ndev>>

DevicesEmit ==
    /\ fn = "none"
    /\ fn' = "emit"
    /\ wire' = devices_emit(frame)
    /\ UNCHANGED frame
    /\ UNCHANGED <<bserver, store, admin, manager, server, indexed, settings, ndev>>

PadSendAllMode1 ==
    /\ fn = "none"
    /\ fn' = "_pad_send_all_mode1"
    /\ wire' = pad_send_all_mode1(frame)
    /\ UNCHANGED frame
    /\ UNCHANGED <<bserver, store, admin, manager, server, indexed, settings, ndev>>

\* The function has returned; the next frame begins.
NextFrame ==
    /\ fn # "none"
    /\ fn' = "none"
    /\ frame' = <<>>
    /\ wire' = <<>>
    /\ UNCHANGED <<bserver, store, admin, manager, server, indexed, settings, ndev>>

(***************************************************************************)
(* pads/settings.py called by several threads: the admin server and the    *)
(* pad server handle every connection in a thread of its own               *)
(* (socketserver.ThreadingMixIn), and settings.py takes no lock.           *)
(***************************************************************************)
\* The threads that run passwords_regenerate: thread t resets index t.
Resetters == SLOTS_INDICES
\* No password: the content of a vector that was never loaded.
NoPasswords == [i \in SLOTS_INDICES |-> ""]
\* The file after json.dump(settings, f) and the close of the file.
Written(passwords) == [complete |-> TRUE, passwords |-> passwords]
\* The file after open(SETTINGS_PATH, 'w'): truncated, nothing written yet.
Truncated == [complete |-> FALSE, passwords |-> NoPasswords]

\* settings = load(): json.load raises JSONDecodeError on a truncated file,
\* which is no OSError, so it leaves passwords_regenerate.
RegenerateLoad(t) ==
    /\ rg[t].pc = "idle"
    /\ rg' = [rg EXCEPT ![t] = IF file.complete
                               THEN [@ EXCEPT !.pc = "loaded",
                                              !.settings = file.passwords]
                               ELSE [@ EXCEPT !.pc = "raised"]]
    /\ UNCHANGED <<file, ck>>
    /\ UNCHANGED <<bserver, uinput, admin, manager, server, indexed, settings, ndev>>

\* settings["passwords"][index] = _regenerate_password(), then save() as
\* far as open(SETTINGS_PATH, 'w'), which truncates the file.
RegenerateOpen(t) ==
    /\ rg[t].pc = "loaded"
    /\ \E p \in Passwords :
           rg' = [rg EXCEPT ![t] = [@ EXCEPT !.pc = "open", !.new = p,
                                             !.settings[t] = p]]
    /\ file' = Truncated
    /\ UNCHANGED ck
    /\ UNCHANGED <<bserver, uinput, admin, manager, server, indexed, settings, ndev>>

\* json.dump(settings, f) and the end of the with block: the vector this
\* thread holds becomes the content of the file.
RegenerateDump(t) ==
    /\ rg[t].pc = "open"
    /\ file' = Written(rg[t].settings)
    /\ rg' = [rg EXCEPT ![t] = [@ EXCEPT !.pc = "done"]]
    /\ UNCHANGED ck
    /\ UNCHANGED <<bserver, uinput, admin, manager, server, indexed, settings, ndev>>

\* passwords_check(index, password) by another thread: load() on the file
\* as it is at this moment.
PasswordsCheck(index, password) ==
    /\ ck' = [index |-> index, password |-> password,
              result |-> IF ~file.complete THEN "JSONDecodeError"
                         ELSE IF file.passwords[index] = password
                              THEN "true" ELSE "false"]
    /\ UNCHANGED <<file, rg>>
    /\ UNCHANGED <<bserver, uinput, admin, manager, server, indexed, settings, ndev>>

(***************************************************************************)
(* The slot manager driven by one caller at a time.                        *)
(***************************************************************************)
Call(op, pad_index, r) ==
    [op |-> op, pad_index |-> pad_index, exc |-> r.exc, fx |-> r.fx]

Apply(op, pad_index, r) ==
    /\ slots' = r.slots
    /\ settings' = r.settings
    /\ last' = Call(op, pad_index, r)
    /\ UNCHANGED <<bserver, store, uinput, admin, now, ndev, server, indexed>>

Init ==
    /\ slots = [i \in SlotRange |-> PadSlot_init]
    /\ settings = [exists |-> TRUE, passwords |-> StoredPasswords]
    /\ ndev = 0
    /\ now = 0
    /\ last = [op |-> "init", pad_index |-> 0, exc |-> "none", fx |-> <<>>]
    /\ POOL = [i \in PoolRange |-> NoEntry]
    /\ counter = 0
    /\ ix = [c \in Handlers |-> Indexed_init]
    /\ h = [c \in Conns |-> Handler_init]
    /\ bcast = {}
    /\ state_set = TRUE
    /\ in_states = TRUE
    /\ listening = TRUE
    /\ lock = NoThread
    /\ queues = {}
    /\ oqueue = [o \in Observers |-> <<>>]
    /\ ob = [o \in Observers |-> Observer_init]
    /\ th = [t \in Producers \cup {Closer} |-> Sender_init]
    /\ ncalls = 0
    /\ blog = <<>>
    /\ first = [o \in Observers |-> 0]
    /\ pad_server = TRUE
    /\ pad_bound = TRUE
    /\ adm = NoRequest
    /\ file = Written(StoredPasswords)
    /\ rg = [t \in Resetters |->
                 [pc |-> "idle", settings |-> NoPasswords, new |-> ""]]
    /\ ck = [index |-> 0, password |-> "", result |-> "none"]
    /\ fn = "none"
    /\ frame = <<>>
    /\ wire = <<>>

\* What load() generates when it runs: nothing while the file exists.
Generated ==
    IF settings.exists THEN {settings.passwords} ELSE PasswordVectors

Occupy ==
    \E i \in PadIndices, c \in Callers, pw \in Passwords, devok \in BOOLEAN,
       gen \in Generated :
        \E r \in {PadSlots_occupy(slots, settings, i, c.nickname, pw, c.index,
                                  devok, SlotDevice(i), gen)} :
            Apply("occupy", i, r)

Release ==
    \E i \in PadIndices, force \in BOOLEAN, expect \in Expects,
       zero \in BOOLEAN :
        \E r \in {PadSlots_release(slots, settings, i, force, expect, zero,
                                   now)} :
            Apply("release", i, r)

ReleaseAll ==
    \E r \in {PadSlots_release_all(slots, settings, now)} :
        Apply("release_all", 0, r)

Emit ==
    \E i \in PadIndices, expect \in Expects, events \in EventLists :
        \E r \in {PadSlots_emit(slots, settings, i, events, expect)} :
            Apply("emit", i, r)

Heartbeat ==
    \E r \in {PadSlots_heartbeat(slots, settings, now)} :
        Apply("heartbeat", 0, r)

Next == Occupy \/ Release \/ ReleaseAll \/ Emit \/ Heartbeat

Spec == Init /\ [][Next]_vars

\* The slot manager with a caller that keeps calling PadSlots.heartbeat():
\* a Heartbeat that can change the state is eventually made.
SweepSpec == Spec /\ WF_vars(Heartbeat)

(***************************************************************************)
(* The admin server: one request at a time on the slot manager, whose      *)
(* slots are occupied by the callers of Occupy and released by pad:clear.  *)
(***************************************************************************)
AdminRequest ==
    \E req \in Requests :
      \E gen \in NewPasswords(req, settings) :
        \E r \in {MainHandler_handle(req, slots, settings, pad_server,
                                     pad_bound, now, gen)} :
            /\ slots' = r.slots
            /\ settings' = r.settings
            /\ pad_server' = r.pad_server
            /\ pad_bound' = r.pad_bound
            /\ adm' = [command |-> req.command, out |-> r.out]
            /\ UNCHANGED <<bserver, store, uinput, now, last, ndev, server, indexed>>

AdminNext == Occupy \/ AdminRequest

AdminSpec == Init /\ [][AdminNext]_vars

StoreNext ==
    \/ \E t \in Resetters :
           RegenerateLoad(t) \/ RegenerateOpen(t) \/ RegenerateDump(t)
    \/ \E index \in SLOTS_INDICES, password \in Passwords :
           PasswordsCheck(index, password)

StoreSpec == Init /\ [][StoreNext]_vars

DeviceNext ==
    \/ \E event \in Events : Receive(event)
    \/ DevicesEmit
    \/ PadSendAllMode1
    \/ NextFrame

DeviceSpec == Init /\ [][DeviceNext]_vars

(***************************************************************************)
(* The pad server: every interleaving of the threads of its connections.   *)
(***************************************************************************)
PadNext ==
    \E c \in Conns :
        \/ AuthRead(c)
        \/ AuthGet(c)
        \/ PadSetCheck(c)
        \/ PadSetStore(c)
        \/ InitPad(c)
        \/ Loop(c)
        \/ ReadEof(c)
        \/ ReadCommand(c)
        \/ EventsCheck(c)
        \/ EventsSend(c)
        \/ EventsEmit(c)
        \/ CloseRead(c)
        \/ CloseStore(c)
        \/ Finally(c)
        \/ FinallyRead(c)
        \/ FinallyStore(c)
        \/ FinallyNone(c)
        \/ HeartbeatCheck(c)
        \/ HeartbeatSleep(c)
        \/ HeartbeatWrite(c)
        \/ HeartbeatClear(c)
        \/ HeartbeatStore(c)
        \/ HeartbeatNone(c)

PadSpec == Init /\ [][PadNext]_vars

\* The steps the handler thread of connection c takes by itself: all but
\* the reads, which wait for the client (AuthRead, ReadEof, ReadCommand).
HandlerStep(c) ==
    \/ AuthGet(c) \/ PadSetCheck(c) \/ PadSetStore(c) \/ InitPad(c)
    \/ Loop(c) \/ EventsCheck(c) \/ EventsSend(c) \/ EventsEmit(c)
    \/ CloseRead(c) \/ CloseStore(c)
    \/ Finally(c) \/ FinallyRead(c) \/ FinallyStore(c) \/ FinallyNone(c)

\* The steps of the heartbeat thread of connection c: the sleep ends by
\* itself after _HEARTBEAT_INTERVAL.
HeartbeatStep(c) ==
    \/ HeartbeatCheck(c) \/ HeartbeatSleep(c) \/ HeartbeatWrite(c)
    \/ HeartbeatClear(c) \/ HeartbeatStore(c) \/ HeartbeatNone(c)

\* The pad server with every thread scheduled again and again: a thread
\* that can take a step takes it in the end.  Nothing makes a client send
\* a byte or close its socket.
PadFairSpec ==
    /\ Init /\ [][PadNext]_vars
    /\ \A c \in Conns : WF_vars(HandlerStep(c)) /\ WF_vars(HeartbeatStep(c))

(***************************************************************************)
(* base_server.py: the connection index.  IndexedHandler.setup runs first  *)
(* in the thread ThreadingMixIn.process_request starts for an accepted     *)
(* connection; the handlers only log the index.  The connections are      *)
(* accepted in the order 1, 2, ...                                         *)
(***************************************************************************)
IndexNext ==
    \E c \in Handlers : Accept(c) \/ NextIndexGet(c) \/ NextIndexLoad(c)
                                \/ NextIndexStore(c)

IndexSpec == Init /\ [][IndexNext]_vars

(***************************************************************************)
(* The broadcast server: every interleaving of the observer threads, the   *)
(* threads that broadcast and the thread that closes the server.           *)
(***************************************************************************)
\* The steps of the handler thread of observer o but its socket write.
ObserverStep(o) ==
    \/ SetupAcquire(o) \/ SetupRegister(o) \/ Get(o)
    \/ FinishAcquire(o) \/ FinishPop(o)

\* The steps of a thread inside _send_all, and of server_close after it.
SenderStep(t) ==
    \/ SendAllCheck(t) \/ SendAllAcquire(t) \/ SendAllPut(t)
    \/ SendAllRelease(t)

CloserStep == CloseSocket \/ ClearState \/ PopState

BroadcastNext ==
    \/ \E t \in Producers : Broadcast(t)
    \/ ServerClose
    \/ \E t \in Producers \cup {Closer} : SenderStep(t)
    \/ CloserStep
    \/ \E o \in Observers :
         AcceptObserver(o) \/ ObserverStep(o) \/ Write(o) \/ Disconnect(o)

BroadcastSpec == Init /\ [][BroadcastNext]_vars

\* Every thread is scheduled again and again, and a write to the socket of
\* a connected observer comes to its end.
BroadcastFairSpec ==
    /\ Init /\ [][BroadcastNext]_vars
    /\ \A t \in Producers \cup {Closer} : WF_vars(SenderStep(t))
    /\ WF_vars(CloserStep)
    /\ \A o \in Observers : WF_vars(ObserverStep(o)) /\ WF_vars(Write(o))

\* The same, but the writes to the socket of observer 1 may stall for ever.
BroadcastStallSpec ==
    /\ Init /\ [][BroadcastNext]_vars
    /\ \A t \in Producers \cup {Closer} : WF_vars(SenderStep(t))
    /\ WF_vars(CloserStep)
    /\ \A o \in Observers : WF_vars(ObserverStep(o))
    /\ \A o \in Observers \ {1} : WF_vars(Write(o))

(***************************************************************************)
(* Properties.                                                             *)
(***************************************************************************)
\* The handler of connection c has been told LOGIN_SUCCESS for slot i and
\* is still inside setup().
LoggingIn(c, i) ==
    /\ h[c].pc \in {"set_check", "set_store", "init_get"}
    /\ h[c].reply = "LOGIN_SUCCESS"
    /\ h[c].pad_index = i

\* C1: of two connections that attempt to occupy the same free slot with
\* the correct password at the same time, at most one is reported
\* successful: two handlers are never both past LOGIN_SUCCESS for one slot
\* with their setup() still running.
C1_OneLoginPerSlot ==
    \A c1, c2 \in Conns, i \in PoolRange :
        c1 # c2 => ~(LoggingIn(c1, i) /\ LoggingIn(c2, i))

\* C2: an OCCUPIED slot holds a device, has a connection index >= 0 and
\* has no stamp of last use, also when it was RECENTLY_USED before.
C2_OccupiedInvariant ==
    \A i \in SlotRange :
        slots[i].status = "OCCUPIED" =>
            /\ slots[i].device # NoDevice
            /\ slots[i].connection_index >= 0
            /\ slots[i].last_user_stamp = NoStamp

\* C3: an EMPTY slot has no device, an empty nickname, connection index -1
\* and no stamp of last use.
C3_EmptyInvariant ==
    \A i \in SlotRange :
        slots[i].status = "EMPTY" =>
            /\ slots[i].device = NoDevice
            /\ slots[i].nickname = ""
            /\ slots[i].connection_index = NoConnection
            /\ slots[i].last_user_stamp = NoStamp

\* C3, witness: a forced release has just emptied a slot that held a device.
C3_ForcedEmpty ==
    /\ last.op = "release"
    /\ last.exc = "none"
    /\ last.pad_index \in SlotRange
    /\ slots[last.pad_index].status = "EMPTY"
    /\ \E d \in SlotDevices : last.fx = <<<<"drop", d>>>>

\* C4: a RECENTLY_USED slot still holds its device, has an empty nickname,
\* connection index -1 and a stamp of last use.
C4_RecentlyUsedInvariant ==
    \A i \in SlotRange :
        slots[i].status = "RECENTLY_USED" =>
            /\ slots[i].device # NoDevice
            /\ slots[i].nickname = ""
            /\ slots[i].connection_index = NoConnection
            /\ slots[i].last_user_stamp # NoStamp

\* C5: the connection indices handed out are pairwise distinct, and a
\* connection accepted later gets a larger index, whatever the interleaving
\* of the handler threads.
C5_DistinctIncreasing ==
    \A c1, c2 \in Handlers :
        (c1 < c2 /\ ix[c1].pc = "done" /\ ix[c2].pc = "done") =>
            ix[c1].index < ix[c2].index

\* The handler thread of connection c is past its read loop: it runs the
\* CLOSE_CONNECTION branch or the finally block of handle().
Terminating(c) ==
    h[c].pc \in {"close_read", "close_store", "finally", "fin_read",
                 "fin_store", "fin_none"}

\* Slot i is held by another connection than c, with a device that is not
\* the one the handler of c holds.
TakenOver(c, i) ==
    /\ h[c].pad_index = i
    /\ POOL[i].device # NoDevice
    /\ POOL[i].device # h[c].device
    /\ POOL[i].nickname # Nick(c)

\* C6: a step of a terminating handler leaves the slot as it is when a
\* newer connection has taken the slot over in the meantime.
C6_StaleHandlerKeepsSlot ==
    [][\A c \in Conns, i \in PoolRange :
          (Terminating(c) /\ h'[c].pc # h[c].pc /\ TakenOver(c, i)) =>
              POOL'[i] = POOL[i]]_vars

\* C7: Occupy, Release and Emit with a pad index outside 0 .. N-1, negative
\* ones included, raise PadIndexOutOfRange and leave every slot as it is;
\* the index N-1 is not out of range.
C7_IndexOutOfRange ==
    \A i \in PadIndices, c \in Callers, pw \in Passwords, e \in Expects,
       b1, b2 \in BOOLEAN :
        \A o \in {PadSlots_occupy(slots, settings, i, c.nickname, pw, c.index,
                                  b1, SlotDevice(i), settings.passwords)},
           r \in {PadSlots_release(slots, settings, i, b1, e, b2, now)},
           m \in {PadSlots_emit(slots, settings, i, <<>>, e)} :
            /\ i \notin SlotRange =>
                   /\ o.exc = "PadIndexOutOfRange" /\ o.slots = slots
                   /\ r.exc = "PadIndexOutOfRange" /\ r.slots = slots
                   /\ m.exc = "PadIndexOutOfRange" /\ m.slots = slots
            /\ i = NumSlots - 1 =>
                   /\ o.exc # "PadIndexOutOfRange"
                   /\ r.exc # "PadIndexOutOfRange"
                   /\ m.exc # "PadIndexOutOfRange"

\* C8: in every reachable state, Occupy of a slot of the list with a
\* password that is not the stored one raises AuthenticationFailed and
\* leaves the slots as they are, whatever the status of the slot.
C8_WrongPassword ==
    \A i \in SlotRange, c \in Callers, pw \in Passwords,
       devok \in BOOLEAN :
        pw # settings.passwords[i] =>
            \A o \in {PadSlots_occupy(slots, settings, i, c.nickname, pw,
                                      c.index, devok, SlotDevice(i),
                                      settings.passwords)} :
                o.exc = "AuthenticationFailed" /\ o.slots = slots

\* C8, witness: an Occupy of an OCCUPIED slot has just been refused for its
\* password.
C8_RefusedOnOccupied ==
    /\ last.op = "occupy"
    /\ last.exc = "AuthenticationFailed"
    /\ last.pad_index \in SlotRange
    /\ slots[last.pad_index].status = "OCCUPIED"

\* C9: in every reachable state, Occupy of an OCCUPIED slot with the stored
\* password raises PadInUse and leaves the nickname, the connection index
\* and the device of its owner as they are.
C9_PadInUse ==
    \A i \in SlotRange, c \in Callers, devok \in BOOLEAN :
        slots[i].status = "OCCUPIED" =>
            \A o \in {PadSlots_occupy(slots, settings, i, c.nickname,
                                      settings.passwords[i], c.index, devok,
                                      SlotDevice(i), settings.passwords)} :
                /\ o.exc = "PadInUse"
                /\ o.slots[i].nickname = slots[i].nickname
                /\ o.slots[i].connection_index = slots[i].connection_index
                /\ o.slots[i].device = slots[i].device

\* C9, witness: an Occupy of an OCCUPIED slot that holds a device has just
\* been refused with PadInUse.
C9_RefusedInUse ==
    /\ last.op = "occupy"
    /\ last.exc = "PadInUse"
    /\ last.pad_index \in SlotRange
    /\ slots[last.pad_index].status = "OCCUPIED"
    /\ slots[last.pad_index].device # NoDevice

\* C10: in every reachable state, a forced Release of a slot that is not
\* EMPTY returns with the slot EMPTY and without its device, whatever the
\* connection index expected; the device it held is dropped, after the
\* neutral frame when zero is set.
C10_ForcedRelease ==
    \A i \in SlotRange, e \in Expects, zero \in BOOLEAN :
        slots[i].status # "EMPTY" =>
            \A r \in {PadSlots_release(slots, settings, i, TRUE, e, zero,
                                       now)},
               d \in {slots[i].device} :
                /\ r.exc = "none"
                /\ r.slots[i].status = "EMPTY"
                /\ r.slots[i].device = NoDevice
                /\ d # NoDevice =>
                       r.fx = (IF zero THEN <<<<"emit_zero", d>>>> ELSE <<>>)
                              \o <<<<"drop", d>>>>
                /\ d = NoDevice => r.fx = <<>>

\* C10, witness: a forced Release with zero set has just emitted the
\* neutral frame on the device of the slot and then dropped it.
C10_ZeroThenDrop ==
    /\ last.op = "release"
    /\ last.exc = "none"
    /\ last.pad_index \in SlotRange
    /\ slots[last.pad_index].status = "EMPTY"
    /\ \E d \in SlotDevices : last.fx = <<<<"emit_zero", d>>, <<"drop", d>>>>

\* C11: in every reachable state, a Release without force that expects a
\* connection index k >= 0 on an OCCUPIED slot of another connection
\* returns without an exception, makes no call on the device and leaves
\* every field of every slot as it is.
C11_MismatchNoOp ==
    \A i \in SlotRange, k \in ConnIds, zero \in BOOLEAN :
        (slots[i].status = "OCCUPIED" /\ slots[i].connection_index # k) =>
            \A r \in {PadSlots_release(slots, settings, i, FALSE, k, zero,
                                       now)} :
                r.exc = "none" /\ r.fx = <<>> /\ r.slots = slots

\* C11, witness: a Release has just returned without an exception and
\* without a call on the device, and its slot is still OCCUPIED: only the
\* release of a slot of another connection ends so.
C11_ReleaseIgnored ==
    /\ last.op = "release"
    /\ last.exc = "none"
    /\ last.fx = <<>>
    /\ last.pad_index \in SlotRange
    /\ slots[last.pad_index].status = "OCCUPIED"
    /\ slots[last.pad_index].connection_index \in ConnIds

\* C12: from every reachable state, ReleaseAll ends with every slot EMPTY
\* and the admin command pad:clear-all is answered pad:ok, also when some
\* slots are EMPTY already.
C12_ReleaseAllEmpties ==
    \A r \in {PadSlots_release_all(slots, settings, now)} :
        /\ \A i \in SlotRange : r.slots[i].status = "EMPTY"
        /\ clear_all_response(r) = "pad:ok"

\* C13: in every reachable state, Emit on an OCCUPIED slot with the
\* connection index of its owner, or with none, returns and applies the
\* events to the device of the slot; on a slot that is not OCCUPIED it
\* raises PadNotInUse and on an OCCUPIED slot of another connection
\* PadMismatch (either of the two when both apply), with no call on a device.
C13_Emit ==
    \A i \in SlotRange, e \in Expects, events \in EventLists :
        \A m \in {PadSlots_emit(slots, settings, i, events, e)} :
            IF slots[i].status = "OCCUPIED"
            THEN IF e \in {NoConnection, slots[i].connection_index}
                 THEN /\ m.exc = "none"
                      /\ m.fx = <<<<"emit", slots[i].device, events>>>>
                 ELSE m.exc = "PadMismatch" /\ m.fx = <<>>
            ELSE /\ m.exc \in (IF e = NoConnection
                               THEN {"PadNotInUse"}
                               ELSE {"PadNotInUse", "PadMismatch"})
                 /\ m.fx = <<>>

\* C14: in every reachable state, a Heartbeat called SLOTS_HEARTBEAT_TIME
\* or more after a slot became RECENTLY_USED returns, leaves that slot
\* EMPTY without its device and reports TRUE for it; called earlier, it
\* returns, reports FALSE for the slot and leaves it as it is.
C14_Cooldown ==
    \A i \in SlotRange, t \in HeartbeatTimes :
        (slots[i].status = "RECENTLY_USED"
            /\ slots[i].last_user_stamp # NoStamp) =>
            \A r \in {PadSlots_heartbeat(slots, settings, t)} :
                /\ r.exc = "none"
                /\ IF t - slots[i].last_user_stamp >= SLOTS_HEARTBEAT_TIME
                   THEN /\ r.slots[i].status = "EMPTY"
                        /\ r.slots[i].device = NoDevice
                        /\ r.ret[i + 1] = TRUE
                   ELSE /\ r.slots[i] = slots[i]
                        /\ r.ret[i + 1] = FALSE

\* C15: in every reachable state, an Occupy of a RECENTLY_USED slot with
\* the stored password returns with the slot OCCUPIED on the device it
\* held, without creating a device; and a Heartbeat called afterwards, at
\* any time, leaves that slot as it is and drops no device.
C15_ReoccupyKeepsDevice ==
    \A i \in SlotRange, c \in Callers, devok \in BOOLEAN :
        slots[i].status = "RECENTLY_USED" =>
            \A o \in {PadSlots_occupy(slots, settings, i, c.nickname,
                                      settings.passwords[i], c.index, devok,
                                      SlotDevice(i), settings.passwords)} :
                /\ o.exc = "none"
                /\ o.fx = <<>>
                /\ o.slots[i].status = "OCCUPIED"
                /\ o.slots[i].device = slots[i].device
                /\ o.slots[i].device # NoDevice
                /\ \A t \in HeartbeatTimes :
                       \A r \in {PadSlots_heartbeat(o.slots, o.settings, t)} :
                           r.slots[i] = o.slots[i] /\ r.fx = <<>>

\* C16: in every reachable state Serialize gives, for each slot, the tag of
\* its state and its nickname when OCCUPIED, "" otherwise; after an Occupy
\* that succeeds the slot is serialized as ("occupied", nickname), and after
\* a forced Release as ("empty", "").
C16_Serialize ==
    /\ \A i \in SlotRange :
           PadSlots_serialize(slots)[i] =
               <<CASE slots[i].status = "EMPTY" -> "empty"
                   [] slots[i].status = "OCCUPIED" -> "occupied"
                   [] slots[i].status = "RECENTLY_USED" -> "recently-used",
                 IF slots[i].status = "OCCUPIED" THEN slots[i].nickname ELSE "">>
    /\ \A i \in SlotRange, c \in Callers, pw \in Passwords :
           \A o \in {PadSlots_occupy(slots, settings, i, c.nickname, pw, c.index,
                                     TRUE, SlotDevice(i), settings.passwords)} :
               o.exc = "none" =>
                   PadSlots_serialize(o.slots)[i] = <<"occupied", c.nickname>>
    /\ \A i \in SlotRange, k \in Expects, zero \in BOOLEAN :
           \A r \in {PadSlots_release(slots, settings, i, TRUE, k, zero, now)} :
               r.exc = "none" => PadSlots_serialize(r.slots)[i] = <<"empty", "">>

\* C16 witness: a slot just occupied is serialized with its nickname while
\* another slot is serialized as recently used.
C16_SerializedOccupied ==
    /\ last.op = "occupy" /\ last.exc = "none" /\ last.pad_index \in SlotRange
    /\ PadSlots_serialize(slots)[last.pad_index] \in {<<"occupied", c.nickname>> : c \in Callers}
    /\ \E j \in SlotRange : PadSlots_serialize(slots)[j] = <<"recently-used", "">>

\* C17: whenever a handler answers a handshake whose mode and index passed
\* the first checks, the response written is the image of the outcome that
\* PadSlots.occupy gives for the same index and password on the slots that
\* POOL stands for: success -> LOGIN_SUCCESS, index out of range ->
\* PAD_INVALID, authentication failed -> LOGIN_FAILURE, pad in use ->
\* PAD_BUSY.
C17_HandshakeImage ==
    [][\A c \in Conns :
         (h[c].pc = "auth_get" /\ h'[c].pc \in {"loop", "set_check"}) =>
             \A o \in {PadSlots_occupy(PoolSlots, settings, h[c].hs.index,
                                       Nick(c), h[c].hs.password, c, TRUE,
                                       SlotDevice(h[c].hs.index),
                                       settings.passwords)} :
                 h'[c].reply =
                     CASE o.exc = "none" -> "LOGIN_SUCCESS"
                       [] o.exc = "PadIndexOutOfRange" -> "PAD_INVALID"
                       [] o.exc = "AuthenticationFailed" -> "LOGIN_FAILURE"
                       [] o.exc = "PadInUse" -> "PAD_BUSY"]_vars

\* setup() is over without _init_pad having run to its end: the handshake
\* was cut short or refused, or pad_set raised.  The heartbeat thread is
\* started by the last statement of _init_pad only.
FailedHandshake(c) ==
    /\ h[c].hb = "off"
    /\ h[c].pc \notin {"auth_read", "auth_get", "set_check", "set_store", "init_get"}

\* C18: every step that ends a handshake in failure, and every later step of
\* that handler, leaves POOL and the notifications broadcast as they are,
\* starts no heartbeat and holds no device; the handler reads no command: it
\* only runs to the end of handle(), or is over already.
C18_FailedHandshakeNoEffect ==
    [][\A c \in Conns :
         (h'[c] # h[c] /\ FailedHandshake(c)') =>
             /\ POOL' = POOL
             /\ bcast' = bcast
             /\ h'[c].hb = "off"
             /\ h'[c].device = NoDevice
             /\ h'[c].pc \in {"dead", "loop", "finally", "fin_none", "done"}]_vars

\* C18 witness: a handshake refused with PAD_BUSY or LOGIN_FAILURE is over,
\* its handler has returned, and the pad it asked for is held by another
\* connection as before.
C18_RefusedAndClosed ==
    \E c \in Conns :
        /\ FailedHandshake(c) /\ h[c].pc = "done"
        /\ h[c].reply \in {"PAD_BUSY", "LOGIN_FAILURE"}
        /\ \E d \in Conns \ {c} :
               /\ h[d].device # NoDevice
               /\ POOL[h[d].pad_index].device = h[d].device
               /\ <<"pad:set", h[d].pad_index, Nick(d)>> \in bcast

\* C19: when a handler carries out a CLOSE_CONNECTION, then, if the pad is
\* still held with this handler's device, the pad ends RECENTLY_USED with an
\* empty nickname and the same device; if the pad is held by a later
\* connection, nothing changes.
C19_CloseConnection ==
    [][\A c \in Conns :
         (h[c].pc = "close_store" /\ h'[c].pc = "finally") =>
             IF POOL[h[c].pad_index].device = h[c].ldevice
             THEN /\ PoolSlots'[h[c].pad_index].status = "RECENTLY_USED"
                  /\ PoolSlots'[h[c].pad_index].nickname = ""
                  /\ PoolSlots'[h[c].pad_index].device = h[c].ldevice
             ELSE POOL' = POOL]_vars

\* C20: a handler that has read a length byte goes back to the head of its
\* read loop only after a PING, which sets has_ping: an event frame goes to
\* the event processing, CLOSE_CONNECTION to the release, and every other
\* length (N_BUTTONS, or above PING) ends handle() without a further read.
C20_UnknownLengthCloses ==
    [][\A c \in Conns :
         (h[c].pc = "read" /\ h'[c].pc = "loop") => h'[c].has_ping]_vars

\* Connection c holds its pad: the pool entry of the pad it logged in to
\* carries its nickname.
HoldsPad(c) ==
    /\ h[c].pad_index # -1
    /\ POOL[h[c].pad_index].device # NoDevice
    /\ POOL[h[c].pad_index].nickname = Nick(c)

\* C21: once the heartbeat of a connection has found no PING at the end of
\* a sleep and has broadcast pad:timeout, the pad is released in the end:
\* the connection no longer holds it, whether the write of TIMEOUT
\* succeeds or fails.
C21_TimeoutReleases ==
    \A c \in Conns :
        (h[c].hb = "hb_write" /\ <<"pad:timeout", h[c].pad_index, "">> \in bcast)
            ~> ~HoldsPad(c)

\* C22: once the heartbeat of a connection has timed out and gone through
\* its release of the pad, the handler thread of that connection comes to
\* its end, without the client sending a byte or closing its socket.
C22_TimeoutEndsHandler ==
    \A c \in Conns : (h[c].hb = "hb_none") ~> (h[c].pc = "done")

\* C23: for every observer, the frames written to its socket are a prefix
\* of the messages broadcast since it was put into the queues, in the order
\* of the broadcasts, none left out and none twice; and two messages
\* written to two observers are in the same order at both.
C23_PrefixOfBroadcasts ==
    LET Since(o) == SubSeq(blog, first[o] + 1, Len(blog))
        Pos(w, m) == CHOOSE k \in 1 .. Len(w) : w[k] = m
        Has(w, m) == \E k \in 1 .. Len(w) : w[k] = m
    IN  /\ \A o \in Observers :
               /\ Len(ob[o].written) <= Len(Since(o))
               /\ ob[o].written = SubSeq(Since(o), 1, Len(ob[o].written))
        /\ \A o1, o2 \in Observers, a, b \in Messages :
               (/\ Has(ob[o1].written, a) /\ Has(ob[o1].written, b)
                /\ Has(ob[o2].written, a) /\ Has(ob[o2].written, b)) =>
                   (Pos(ob[o1].written, a) < Pos(ob[o1].written, b)
                        <=> Pos(ob[o2].written, a) < Pos(ob[o2].written, b))

\* C23 witness: the second call of broadcast() took the lock first, one
\* observer has written both messages, and another observer, put into the
\* queues after the first broadcast, has written the later one only.
C23_TwoObserversWritten ==
    /\ blog = <<2, 1>>
    /\ \E o1, o2 \in Observers :
           /\ ob[o1].written = <<2, 1>>
           /\ first[o2] = 1 /\ ob[o2].written = <<1>>

C26_CloseEndsSenders ==
    (th[Closer].pc = "closed")
        ~> (\A o \in Observers : ob[o].pc \in {"new", "dead", "done"})

\* C27: in every reachable state, the handler of every well-formed admin
\* request sends at least one response.
C27_AlwaysAnswered ==
    \A req \in Requests :
      \A gen \in NewPasswords(req, settings) :
        \A r \in {MainHandler_handle(req, slots, settings, pad_server,
                                     pad_bound, now, gen)} :
            \E k \in 1 .. Len(r.out) : r.out[k][1] = "send"

\* C28: in every reachable state, server:start answers server:ok and leaves
\* the pad server running when it was stopped, and answers
\* server:already-running otherwise; server:stop answers server:ok and
\* leaves it stopped when it was running, and answers server:not-running
\* otherwise; server:is-running reports whether it runs.
C28_TwoStateMachine ==
    \A req \in Requests :
        \A r \in {MainHandler_handle(req, slots, settings, pad_server,
                                     pad_bound, now, settings.passwords)} :
            /\ req.command = "server:start" =>
                   /\ r.pad_server
                   /\ r.out = <<Sent(IF pad_server
                                     THEN "server:already-running"
                                     ELSE "server:ok", FALSE)>>
            /\ req.command = "server:stop" =>
                   /\ ~r.pad_server
                   /\ r.out = <<Sent(IF pad_server THEN "server:ok"
                                     ELSE "server:not-running", FALSE)>>
            /\ req.command = "server:is-running" =>
                   /\ r.pad_server = pad_server
                   /\ r.out = <<Sent("server:is-running", pad_server)>>

\* C29: in every reachable state, whatever the handler of pad:clear or of
\* pad:clear-all hands to the broadcast, it hands over before it sends the
\* response.
C29_NotificationFirst ==
    \A req \in Requests :
        req.command \in {"pad:clear", "pad:clear-all"} =>
            \A r \in {MainHandler_handle(req, slots, settings, pad_server,
                                         pad_bound, now, settings.passwords)} :
                \A j, k \in 1 .. Len(r.out) :
                    (r.out[j][1] = "broadcast" /\ r.out[k][1] = "send")
                        => j < k

\* C30: in every reachable state, the handler of an admin request that
\* changes the slots, the passwords or the running pad server hands a
\* notification to the broadcast.
C30_ChangeNotified ==
    \A req \in Requests :
      \A gen \in NewPasswords(req, settings) :
        \A r \in {MainHandler_handle(req, slots, settings, pad_server,
                                     pad_bound, now, gen)} :
            (\/ r.slots # slots
             \/ r.settings # settings
             \/ r.pad_server # pad_server)
                => \E k \in 1 .. Len(r.out) : r.out[k][1] = "broadcast"

\* C31: in every reachable state where the pad server runs, the handler of
\* server:stop leaves the pad server stopped and every slot EMPTY.
C31_StopReleasesAll ==
    \A req \in Requests :
        (req.command = "server:stop" /\ pad_server) =>
            \A r \in {MainHandler_handle(req, slots, settings, pad_server,
                                         pad_bound, now, settings.passwords)} :
                /\ ~r.pad_server
                /\ \A i \in SlotRange : r.slots[i].status = "EMPTY"

\* The request pad:reset-passwords for the one index i.
ResetRequest(i) ==
    [command |-> "pad:reset-passwords", index |-> 0, force |-> FALSE,
     indices |-> {i}]

\* C32, as stated: in every reachable state, after pad:reset-passwords for
\* index i the passwords of the other indices are unchanged, an Occupy of
\* slot i, not OCCUPIED, with the new password succeeds, and an Occupy with
\* the old password fails with AuthenticationFailed.
C32_PasswordRoundTrip ==
    \A i \in SLOTS_INDICES, gen \in PasswordVectors, c \in Callers :
        \A r \in {MainHandler_handle(ResetRequest(i), slots, settings,
                                     pad_server, pad_bound, now, gen)} :
            /\ \A j \in SLOTS_INDICES \ {i} :
                   r.settings.passwords[j] = settings.passwords[j]
            /\ slots[i].status # "OCCUPIED" =>
                   PadSlots_occupy(r.slots, r.settings, i, c.nickname,
                                   gen[i], c.index, TRUE, SlotDevice(i),
                                   gen).exc = "none"
            /\ PadSlots_occupy(r.slots, r.settings, i, c.nickname,
                               settings.passwords[i], c.index, TRUE,
                               SlotDevice(i), gen).exc = "AuthenticationFailed"

\* C32, amended: the same, but the Occupy with the old password fails when
\* the new password differs from the old one; _regenerate_password draws
\* four letters at random and may draw the old password again.
C32_PasswordRoundTripAmended ==
    \A i \in SLOTS_INDICES, gen \in PasswordVectors, c \in Callers :
        \A r \in {MainHandler_handle(ResetRequest(i), slots, settings,
                                     pad_server, pad_bound, now, gen)} :
            /\ \A j \in SLOTS_INDICES \ {i} :
                   r.settings.passwords[j] = settings.passwords[j]
            /\ slots[i].status # "OCCUPIED" =>
                   PadSlots_occupy(r.slots, r.settings, i, c.nickname,
                                   gen[i], c.index, TRUE, SlotDevice(i),
                                   gen).exc = "none"
            /\ gen[i] # settings.passwords[i] =>
                   PadSlots_occupy(r.slots, r.settings, i, c.nickname,
                                   settings.passwords[i], c.index, TRUE,
                                   SlotDevice(i), gen).exc
                       = "AuthenticationFailed"

\* C32 witness: pad:reset-passwords has given slot 0 a new password, and an
\* Occupy of slot 0 has succeeded since.
C32_OccupiedWithNewPassword ==
    /\ adm.command = "pad:reset-passwords"
    /\ settings.passwords[0] # StoredPasswords[0]
    /\ last.op = "occupy" /\ last.pad_index = 0 /\ last.exc = "none"
    /\ slots[0].status = "OCCUPIED"

\* C33: once every passwords_regenerate has ended, each has returned and
\* the file holds the new password of each; and no passwords_check finds
\* the file partially written.
C33_StoreSerialized ==
    /\ (\A t \in Resetters : rg[t].pc \in {"done", "raised"}) =>
           \A t \in Resetters :
               /\ rg[t].pc = "done"
               /\ file.complete
               /\ file.passwords[t] = rg[t].new
    /\ ck.result # "JSONDecodeError"

\* C34: in every reachable state, whatever operation is called next, each
\* slot keeps its status or takes one of the steps EMPTY -> OCCUPIED (Occupy),
\* OCCUPIED -> RECENTLY_USED (Release, not forced), OCCUPIED -> EMPTY (forced
\* Release), RECENTLY_USED -> OCCUPIED (Occupy), RECENTLY_USED -> EMPTY
\* (Heartbeat, forced Release); and an operation that fails leaves the slots
\* as they were.
C34_Transitions ==
    LET Moves(r, allowed) ==
            /\ r.exc # "none" => r.slots = slots
            /\ \A i \in SlotRange :
                   \/ r.slots[i].status = slots[i].status
                   \/ <<slots[i].status, r.slots[i].status>> \in allowed
    IN  /\ \A i \in PadIndices, c \in Callers, pw \in Passwords,
              devok \in BOOLEAN, gen \in Generated :
               Moves(PadSlots_occupy(slots, settings, i, c.nickname, pw,
                                     c.index, devok, SlotDevice(i), gen),
                     {<<"EMPTY", "OCCUPIED">>,
                      <<"RECENTLY_USED", "OCCUPIED">>})
        /\ \A i \in PadIndices, force \in BOOLEAN, expect \in Expects,
              zero \in BOOLEAN :
               Moves(PadSlots_release(slots, settings, i, force, expect,
                                      zero, now),
                     IF force THEN {<<"OCCUPIED", "EMPTY">>,
                                    <<"RECENTLY_USED", "EMPTY">>}
                     ELSE {<<"OCCUPIED", "RECENTLY_USED">>})
        /\ Moves(PadSlots_release_all(slots, settings, now),
                 {<<"OCCUPIED", "EMPTY">>, <<"RECENTLY_USED", "EMPTY">>})
        /\ \A i \in PadIndices, expect \in Expects, events \in EventLists :
               Moves(PadSlots_emit(slots, settings, i, events, expect), {})
        /\ Moves(PadSlots_heartbeat(slots, settings, now),
                 {<<"RECENTLY_USED", "EMPTY">>})

\* C35: a slot that is RECENTLY_USED is eventually EMPTY without its device,
\* or OCCUPIED again, when Heartbeat keeps being called.
C35_CooldownEnds ==
    \A i \in SlotRange :
        (slots[i].status = "RECENTLY_USED") ~>
            \/ slots[i].status = "EMPTY" /\ slots[i].device = NoDevice
            \/ slots[i].status = "OCCUPIED"

\* C36: in every reachable state, a forced Release of an EMPTY slot and a
\* Release that is not forced of an EMPTY or RECENTLY_USED slot raise
\* PadNotInUse, change no slot and send nothing to a device.
C36_ReleaseNotInUse ==
    \A i \in SlotRange, force \in BOOLEAN, expect \in Expects,
       zero \in BOOLEAN :
        (IF force THEN slots[i].status = "EMPTY"
                  ELSE slots[i].status \in {"EMPTY", "RECENTLY_USED"}) =>
            \A r \in {PadSlots_release(slots, settings, i, force, expect,
                                       zero, now)} :
                /\ r.exc = "PadNotInUse"
                /\ r.slots = slots
                /\ r.fx = <<>>

\* C36 witness: a Release of a RECENTLY_USED slot that holds its device has
\* just been refused with PadNotInUse.
C36_RefusedInCooldown ==
    /\ last.op = "release" /\ last.exc = "PadNotInUse"
    /\ last.pad_index \in SlotRange
    /\ slots[last.pad_index].status = "RECENTLY_USED"
    /\ slots[last.pad_index].device # NoDevice

\* C37: whenever a frame whose D-pad states are 0 or 1 has been sent to the
\* device, by devices.emit or by _pad_send_all_mode1: on each of the axes X
\* and Y the device got the clamped values of the explicit events of the
\* axis and nothing else, or, without explicit events, one value for the
\* D-pad events of the axis (0 when only LEFT or UP is pressed, 255 when only
\* RIGHT or DOWN is, else 127), or nothing; no key call is made for a D-pad
\* event; every axis value is within 0 .. 255; and the calls end with the
\* one sync of the frame.
C37_DpadFolding ==
    LET Abs(axis) == SelectSeq(wire, LAMBDA c : c[1] = "abs" /\ c[2] = axis)
        Explicit(axis) == SelectSeq(frame, LAMBDA e : e[1] = axis)
        Pressed(keys) ==
            {key \in keys : \E k \in 1 .. Len(frame) : frame[k] = <<key, 1>>}
        Axis(axis, low, high) ==
            IF Explicit(axis) # <<>>
            THEN /\ Len(Abs(axis)) = Len(Explicit(axis))
                 /\ \A k \in 1 .. Len(Explicit(axis)) :
                        Abs(axis)[k][3] = Clamp(Explicit(axis)[k][2])
            ELSE IF \E k \in 1 .. Len(frame) : frame[k][1] \in {low, high}
            THEN /\ Len(Abs(axis)) = 1
                 /\ Abs(axis)[1][3] =
                        (IF Pressed({low, high}) = {low} THEN 0
                         ELSE IF Pressed({low, high}) = {high} THEN 255
                         ELSE 127)
            ELSE Abs(axis) = <<>>
    IN  (/\ fn # "none"
         /\ \A k \in 1 .. Len(frame) :
                frame[k][1] \in 10 .. 13 => frame[k][2] \in {0, 1}) =>
            /\ Axis(ABS_X, BTN_LEFT, BTN_RIGHT)
            /\ Axis(ABS_Y, BTN_UP, BTN_DOWN)
            /\ \A k \in 1 .. Len(wire) :
                   /\ wire[k][1] = "key" => wire[k][2] \in 288 .. 297
                   /\ wire[k][1] = "abs" => wire[k][3] \in 0 .. 255
                   /\ k < Len(wire) => wire[k][1] # "syn" /\ ~wire[k][4]
            /\ wire # <<>> /\ wire[Len(wire)] = Syn

\* C38: in every reachable state, an Emit by the owner of an OCCUPIED slot
\* of a frame that devices.emit cannot apply (it ends without the sync)
\* returns without an exception and leaves the slot as it is.
C38_DeviceErrorSwallowed ==
    \A i \in SlotRange, event \in Events :
        (/\ slots[i].status = "OCCUPIED"
         /\ Syn \notin {devices_emit(<<event>>)[k] :
                            k \in 1 .. Len(devices_emit(<<event>>))}) =>
            \A r \in {PadSlots_emit(slots, settings, i, <<event>>,
                                    slots[i].connection_index)} :
                /\ r.exc = "none"
                /\ r.slots = slots

\* C39: whenever the handler of a connection hands a frame to
\* _pad_send_all, the device the pool holds for its index at that moment is
\* the device the connection got at its login, or none at all: the frame
\* never reaches the device of another connection.
C39_OwnDeviceOnly ==
    [][\A c \in Conns :
           (h[c].pc = "ev_emit" /\ h'[c].pc # "ev_emit") =>
               POOL[h[c].pad_index].device \in {NoDevice, h[c].ldevice}]_vars

\* C40: in every reachable state, an Occupy of an EMPTY slot with the stored
\* password whose device cannot be created fails and leaves the slots as
\* they were, and an Occupy of the same slot made next is not refused with
\* PadInUse.
C40_FailedMakeNoEffect ==
    \A i \in SlotRange, c \in Callers, d \in Callers :
        (slots[i].status = "EMPTY" /\ slots[i].device = NoDevice) =>
            \A r \in {PadSlots_occupy(slots, settings, i, c.nickname,
                                      settings.passwords[i], c.index, FALSE,
                                      SlotDevice(i), settings.passwords)} :
                /\ r.exc # "none"
                /\ r.slots = slots
                /\ PadSlots_occupy(r.slots, r.settings, i, d.nickname,
                                   settings.passwords[i], d.index, TRUE,
                                   SlotDevice(i), settings.passwords).exc
                       # "PadInUse"

=============================================================================
